---- MODULE Spec2Model ----
(***************************************************************************)
(* Model of the novel reader: the Reader page's preference / progress      *)
(* reconciliation (src/pages/Reader.tsx with src/data/userSync.ts) and the *)
(* chapter store adapter (src/data/db.ts).                                 *)
(*                                                                         *)
(* Conventions                                                             *)
(*  - An optional record (null / undefined in the source) is a record with *)
(*    present = FALSE.                                                     *)
(*  - A missing updatedAt field is the stamp NoStamp; Stamp(r) is the      *)
(*    source's (r.updatedAt ?? 0).                                         *)
(*  - clock is the last value Date.now() returned; an action that calls    *)
(*    Date.now() draws its value now from clock..MaxClock (time never      *)
(*    runs backwards) and advances clock to it.                            *)
(*  - A Firestore write issued by this client is visible to every later    *)
(*    read of this client (the SDK's local view), or it is rejected and    *)
(*    leaves the document unchanged; its promise settles in a later step.  *)
(***************************************************************************)
EXTENDS Integers, Sequences, FiniteSets, TLC

(***************************************************************************)
(* Bounds of the Reader model                                              *)
(***************************************************************************)
MaxClock == 2
MaxEdits == 1
MaxLogins == 1
MaxRejects == 1

InitClock == 1
NoStamp == -1

VARIABLES
  clock,            \* the last value of Date.now()
  user,             \* useAuth().user?.uid, "" when signed out
  chapterIdParam,   \* params.chapterId, "" when the route has none
  theme,            \* useState: theme
  font,             \* useState: font
  fontSize,         \* useState: fontSize
  prefsReady,       \* useState: prefsReady
  story,            \* useState: story ("null" | "present")
  chapters,         \* useState: chapters (ids delivered by listenChapters)
  mounted,          \* the Reader has committed its first render
  deps,             \* the values the last committed render was made with
  lsPrefs,          \* localStorage[prefsKey]
  lsProgress,       \* localStorage[progressKey]
  userPrefsDoc,     \* users/{uid}/prefs/{storyId}
  userProgressDoc,  \* users/{uid}/progress/{storyId}
  merges,           \* the runs of the merge effect's async function
  atSignIn,         \* history: what held at the moment of the last sign-in
  budget,           \* user events left: edits (with navigations), logins
  rejects           \* writes the remote store may still reject

readerVars ==
  <<user, chapterIdParam, theme, font, fontSize, prefsReady, story, chapters,
    mounted, deps, lsPrefs, lsProgress, userPrefsDoc, userProgressDoc,
    merges, atSignIn, budget, rejects>>

VARIABLES
  storyDoc,         \* stories/{storyId}
  chaptersCol,      \* stories/{storyId}/chapters: document id -> data
  chaptersMetaCol,  \* stories/{storyId}/chaptersMeta: document id -> data
  call,             \* the store operation in progress, or the last one
  commits,          \* history: the batch commits the current call issued
  history,          \* history: the calls that ended, with their outcome
  before,           \* history: the collections when the call was first made
  lastChapterWrite, \* history: time of the latest persisted chapter write
  failures          \* requests the store may still reject

storeVars ==
  <<storyDoc, chaptersCol, chaptersMetaCol, call, commits, history, before,
    lastChapterWrite, failures>>

VARIABLES
  read,             \* the read operation in progress, or the last one
  listener,         \* the subscription made with listenChapterMetas
  admin,            \* the Admin page's handler in progress, and its state
  msg,              \* Admin useState: msg
  importInfo,       \* Admin useState: importInfo
  busy,             \* Admin useState: busy
  text,             \* the text being converted, and what it was made into
  other             \* the store operation of a second session

clientVars == <<read, listener, admin, msg, importInfo, busy, text, other>>

vars == <<clock, readerVars, storeVars, clientVars>>

(***************************************************************************)
(* Values                                                                  *)
(***************************************************************************)
Uid == "u1"
Themes == {"light", "dark"}
Fonts == {"sans", "noto", "inter", "roboto", "opensans", "lato", "poppins"}
FontChoices == {"sans", "noto"}
ChapterIds == {"1", "2", "3"}
MinFontSize == 14
MaxFontSize == 26
DefaultFontSize == 18

clamp(n, min, max) ==
  LET lo == IF max < n THEN max ELSE n
  IN  IF min > lo THEN min ELSE lo

NoPrefs ==
  [present |-> FALSE, theme |-> "", font |-> "", fontSize |-> 0,
   updatedAt |-> NoStamp]
NoProgress == [present |-> FALSE, lastChapterId |-> "", updatedAt |-> NoStamp]

MkPrefs(t, f, s, at) ==
  [present |-> TRUE, theme |-> t, font |-> f, fontSize |-> s, updatedAt |-> at]
MkProgress(c, at) == [present |-> TRUE, lastChapterId |-> c, updatedAt |-> at]

\* (r.updatedAt ?? 0)
Stamp(r) == IF r.updatedAt = NoStamp THEN 0 ELSE r.updatedAt

PrefsValue(r) == <<r.theme, r.font, r.fontSize>>

\* const chapterId = String(chapterIdParam ?? "1").trim()
ChapterIdOf(param) == IF param = "" THEN "1" ELSE param
chapterId == ChapterIdOf(chapterIdParam)


(***************************************************************************)
(* Reader.tsx, merge effect: the record the reconciliation keeps.          *)
(*   !remote ? local : !local ? remote :                                   *)
(*     ((local.updatedAt ?? 0) >= (remote.updatedAt ?? 0) ? local : remote)*)
(* The result names the object the source's identity test                  *)
(* (best === local) tells apart; "none" is a null result.                  *)
(***************************************************************************)
\* faulty variant: a tie goes to the remote copy (> for >=)
BestOfStrict(local, remote) ==
  IF ~remote.present THEN (IF local.present THEN "local" ELSE "none")
  ELSE IF ~local.present THEN "remote"
  ELSE IF Stamp(local) > Stamp(remote) THEN "local" ELSE "remote"

BestOf(local, remote) ==
  IF ~remote.present THEN (IF local.present THEN "local" ELSE "none")
  ELSE IF ~local.present THEN "remote"
  ELSE IF Stamp(local) >= Stamp(remote) THEN "local" ELSE "remote"

BestRecord(local, remote, none) ==
  LET b == BestOf(local, remote)
  IN  IF b = "local" THEN local ELSE IF b = "remote" THEN remote ELSE none

\* Reader.tsx 282: String(bestProg.lastChapterId).trim() !== String(chapterId),
\* with the chapterId of the render the merge effect ran in
ShouldNavigate(lastChapterId, renderedChapterId) ==
  lastChapterId # renderedChapterId

(***************************************************************************)
(* One run of the merge effect's async function (Reader.tsx 246-292).      *)
(* chapterId is the value of the render the effect ran in (user.uid too:   *)
(* the model has one user).  localPrefs and localProg are held from the    *)
(* read of the cache to the resolution that uses them.  bestPrefs,         *)
(* bestProg and navTo record what the run resolved to and the navigation   *)
(* it issued; signIn is the sign-in the run belongs to.                    *)
(***************************************************************************)
NewMerge(local) ==
  [pc |-> "loadPrefs", chapterId |-> chapterId,
   localPrefs |-> local, bestPrefs |-> "none",
   localProg |-> NoProgress, bestProg |-> "none",
   navTo |-> "", writeOk |-> TRUE, signIn |-> atSignIn]

SetMerge(i, m) == [merges EXCEPT ![i] = m]

(***************************************************************************)
(* The values a render is made with, compared by the effects' dependency   *)
(* arrays.                                                                 *)
(***************************************************************************)
Rendered ==
  [theme |-> theme, font |-> font, fontSize |-> fontSize,
   prefsReady |-> prefsReady, uid |-> user, chapterIdParam |-> chapterIdParam,
   chapterId |-> chapterId, story |-> story, chapters |-> chapters]

NeedsRender == ~mounted \/ deps # Rendered

\* a dependency differs from the last committed render's (or first render)
Changed(f) == ~mounted \/ deps[f] # Rendered[f]

\* the dependency arrays of the effects (Reader.tsx 218, 239, 294, 309, 325);
\* storyId, prefsKey, progressKey and navigate never change in a session
LoadPrefsDeps == ~mounted
SavePrefsDeps ==
  \/ Changed("theme") \/ Changed("font") \/ Changed("fontSize")
  \/ Changed("prefsReady") \/ Changed("uid")
\* faulty variant: the merge effect also depends on chapterId
MergeDepsWithChapter ==
  Changed("prefsReady") \/ Changed("uid") \/ Changed("chapterId")

MergeDeps == Changed("prefsReady") \/ Changed("uid")
RedirectDeps ==
  Changed("chapterIdParam") \/ Changed("story") \/ Changed("chapters")
SaveLastChapterDeps == Changed("chapterId") \/ Changed("uid")

(***************************************************************************)
(* userSync: savePrefs / saveProgress, setDoc(..., {merge: true}) of every *)
(* field this model keeps: the document after the call.  ok: the store     *)
(* accepts the write; now: its Date.now().                                 *)
(***************************************************************************)
\* faulty variant: the write is lost
savePrefsLost(doc, t, f, s, ok, now) == doc

savePrefs(doc, t, f, s, ok, now) ==
  IF ok THEN MkPrefs(t, f, s, now) ELSE doc

saveProgress(doc, lastChapterId, ok, now) ==
  IF ok THEN MkProgress(lastChapterId, now) ELSE doc

(***************************************************************************)
(* Init: the Reader page is about to mount for story s1, signed out.  The  *)
(* device cache and the remote store hold what earlier sessions (of this   *)
(* or another device, whose clock may be ahead) left there.                *)
(***************************************************************************)
LocalPrefs == MkPrefs("light", "noto", 26, 1)
RemotePrefs(at) == MkPrefs("dark", "sans", 14, at)
LocalProgress == MkProgress("2", 1)
RemoteProgress(at) == MkProgress("3", at)
ChaptersSample == <<"2", "3">>

Scenario(param, lp, rp, lg, rg) ==
  [chapterIdParam |-> param, lsPrefs |-> lp, userPrefsDoc |-> rp,
   lsProgress |-> lg, userProgressDoc |-> rg]

Scenarios ==
  { Scenario("", NoPrefs, NoPrefs, NoProgress, NoProgress),
    Scenario("2", LocalPrefs, NoPrefs, LocalProgress, NoProgress),
    Scenario("", NoPrefs, RemotePrefs(2), NoProgress, RemoteProgress(2)),
    Scenario("2", LocalPrefs, RemotePrefs(2), LocalProgress, RemoteProgress(2)),
    Scenario("", LocalPrefs, RemotePrefs(2), LocalProgress, RemoteProgress(2)),
    Scenario("2", LocalPrefs, RemotePrefs(1), LocalProgress, RemoteProgress(1)),
    Scenario("", LocalPrefs, RemotePrefs(NoStamp), LocalProgress,
             RemoteProgress(1)) }

ReaderInit ==
  /\ user = ""
  /\ \E sc \in Scenarios :
       /\ chapterIdParam = sc.chapterIdParam
       /\ lsPrefs = sc.lsPrefs
       /\ lsProgress = sc.lsProgress
       /\ userPrefsDoc = sc.userPrefsDoc
       /\ userProgressDoc = sc.userProgressDoc
  /\ theme = "light"
  /\ font = "sans"
  /\ fontSize = DefaultFontSize
  /\ prefsReady = FALSE
  /\ story = "null"
  /\ chapters = <<>>
  /\ mounted = FALSE
  /\ deps = Rendered
  /\ merges = <<>>
  /\ atSignIn = [prefsRemoteNewer |-> FALSE, progressRemoteNewer |-> FALSE,
                 edited |-> FALSE]
  /\ budget = [edits |-> MaxEdits, logins |-> MaxLogins]
  /\ rejects = MaxRejects

\* the store operation record when none has been called: op is the
\* operation, pc the request it waits for, arg its argument, now its
\* Date.now(), i the loop index of batchUpsertChapters, inflight the
\* collections with a request of Promise.all unsettled, failed whether one
\* was rejected, col and page the collection and the page of deletePaged
NoCall ==
  [op |-> "none", pc |-> "idle", arg |-> <<>>, now |-> 0, i |-> 0,
   inflight |-> {}, failed |-> FALSE, col |-> "", page |-> {}]

\* a getDoc snapshot of a document that does not exist
NoSnap == [exists |-> FALSE, data |-> <<>>]

\* no read is in progress: op is the operation, pc the request it waits
\* for, arg its argument, attempts the reads of the story it issued, errors
\* what each failed attempt failed with, inflight the requests of a
\* Promise.all not yet answered, snaps the snapshots received, touched the
\* collections whose documents it was sent, hung whether the request of the
\* attempt in progress is one the store never answers, result what it
\* returned or threw
NoRead ==
  [op |-> "none", pc |-> "idle", arg |-> <<>>, attempts |-> 0,
   errors |-> <<>>, hung |-> FALSE, inflight |-> {},
   snaps |-> [chapters |-> NoSnap, chaptersMeta |-> NoSnap],
   touched |-> {}, result |-> [kind |-> "none"]]

\* listenChapterMetas has not been called: initial tells whether the first
\* snapshot was handled, seen is the list of the last snapshot handled,
\* delivered the lists the callback was invoked with, in order, fallbacks
\* the getChapterMetas calls started for empty snapshots and not yet
\* settled, rejected whether one of them was rejected
NoListener ==
  [subscribed |-> FALSE, initial |-> FALSE, seen |-> <<>>,
   delivered |-> <<>>, fallbacks |-> <<>>, rejected |-> FALSE,
   unsubscribed |-> FALSE]

\* the Admin page with no handler running: op is the handler, pc what it
\* awaits, files and idx the list handleFiles works on and the position of
\* its loop, totalChapters and importedFiles its counters, warned the
\* positions of the files it set the duplicate warning for, failed the
\* awaited call whose rejection ended the last handler ("" when none
\* did), threw whether that rejection was left uncaught, storyTitle and
\* chapters the useState values reloadAll sets
NoAdmin ==
  [op |-> "none", pc |-> "idle", files |-> <<>>, idx |-> 0,
   totalChapters |-> 0, importedFiles |-> 0, warned |-> {},
   failed |-> "", threw |-> FALSE, storyTitle |-> "Admin",
   chapters |-> <<>>]

\* the Admin message: what it says (kind) and about what (detail)
Msg(kind, detail) == [kind |-> kind, detail |-> detail]

\* no text is being converted: s is the string, passes the number of
\* conversions applied to it, chapters what splitChapters returned for it,
\* table the table element given to tableToBlockquote
NoText == [s |-> <<>>, passes |-> 0, chapters |-> <<>>, table |-> <<>>]

\* the clients of the store are not running
ClientsIdle ==
  /\ read = NoRead
  /\ listener = NoListener
  /\ admin = NoAdmin
  /\ msg = Msg("", <<>>)
  /\ importInfo = [present |-> FALSE, files |-> 0, chapters |-> 0]
  /\ busy = FALSE
  /\ text = NoText
  /\ other = NoCall

\* no document of the story's chapter store exists and no operation runs
StoreUnused ==
  /\ storyDoc = <<>>
  /\ chaptersCol = <<>>
  /\ chaptersMetaCol = <<>>
  /\ call = NoCall
  /\ before = [chapters |-> <<>>, chaptersMeta |-> <<>>]
  /\ commits = <<>>
  /\ history = <<>>
  /\ lastChapterWrite = 0
  /\ failures = 0

Init ==
  /\ clock = InitClock
  /\ ReaderInit
  /\ StoreUnused
  /\ ClientsIdle

(***************************************************************************)
(* Date.now(): a value no earlier than the last one.                       *)
(***************************************************************************)
Times == clock..MaxClock

(***************************************************************************)
(* Commit: React renders the Reader with the current state and then runs,  *)
(* in source order, every effect one of whose dependencies changed since   *)
(* the last committed render (all of them on mount).  The effects see the  *)
(* values of this render; their setState calls take effect in the next.    *)
(*   okPrefs, okProg: whether the store accepts the write of the           *)
(*   fire-and-forget savePrefs / saveProgress (.catch(() => {})).          *)
(*   now: the value of Date.now() in the effects of this commit.           *)
(***************************************************************************)
Commit(okPrefs, okProg, now) ==
  /\ NeedsRender
  /\ LET \* ---- LOAD PREFS (local first), deps [prefsKey]: on mount only
         runLoad == LoadPrefsDeps
         saved == lsPrefs
         theme1 == IF runLoad /\ saved.present /\ saved.theme \in Themes
                   THEN saved.theme ELSE theme
         font1 == IF runLoad /\ saved.present /\ saved.font \in Fonts
                  THEN saved.font ELSE font
         size1 == IF runLoad /\ saved.present
                  THEN clamp(saved.fontSize, MinFontSize, MaxFontSize)
                  ELSE fontSize
         ready1 == IF runLoad THEN TRUE ELSE prefsReady
         \* ---- SAVE PREFS (local + remote)
         runSave == SavePrefsDeps /\ prefsReady
         payload == MkPrefs(theme, font,
                            clamp(fontSize, MinFontSize, MaxFontSize), now)
         lsPrefs1 == IF runSave THEN payload ELSE lsPrefs
         sendPrefs == runSave /\ user # ""
         userPrefsDoc1 ==
           IF sendPrefs
           THEN savePrefs(userPrefsDoc, theme, font,
                          clamp(fontSize, MinFontSize, MaxFontSize), okPrefs, now)
           ELSE userPrefsDoc
         \* ---- Merge prefs/progress after login, deps [prefsReady, uid, storyId]
         runMerge == MergeDeps /\ prefsReady /\ user # ""
         merges1 == IF runMerge THEN Append(merges, NewMerge(lsPrefs1))
                    ELSE merges
         \* ---- Redirect to last chapter when missing chapterId
         runRedirect == RedirectDeps /\ chapterIdParam = "" /\ story = "present"
         savedId == IF lsProgress.present THEN lsProgress.lastChapterId ELSE ""
         fallback == IF chapters # <<>> /\ chapters[1] # "" THEN chapters[1]
                     ELSE "1"
         target == IF savedId # "" THEN savedId ELSE fallback
         param1 == IF runRedirect THEN target ELSE chapterIdParam
         \* ---- SAVE LAST CHAPTER, deps [chapterId, progressKey, storyId, uid]
         runProg == SaveLastChapterDeps
         progPayload == MkProgress(chapterId, now)
         lsProgress1 == IF runProg THEN progPayload ELSE lsProgress
         sendProg == runProg /\ user # ""
         userProgressDoc1 ==
           IF sendProg THEN saveProgress(userProgressDoc, chapterId, okProg, now)
           ELSE userProgressDoc
         rejected == (IF okPrefs THEN 0 ELSE 1) + (IF okProg THEN 0 ELSE 1)
     IN  /\ (~sendPrefs => okPrefs)
         /\ (~sendProg => okProg)
         /\ rejected <= rejects
         /\ rejects' = rejects - rejected
         /\ (~(runSave \/ runProg) => now = clock)
         /\ clock' = now
         /\ mounted' = TRUE
         /\ deps' = Rendered
         /\ theme' = theme1
         /\ font' = font1
         /\ fontSize' = size1
         /\ prefsReady' = ready1
         /\ lsPrefs' = lsPrefs1
         /\ userPrefsDoc' = userPrefsDoc1
         /\ merges' = merges1
         /\ chapterIdParam' = param1
         /\ lsProgress' = lsProgress1
         /\ userProgressDoc' = userProgressDoc1
  /\ UNCHANGED <<user, story, chapters, atSignIn, budget>>

(***************************************************************************)
(* Load story + realtime chapters (Reader.tsx 153-175): getStory resolves  *)
(* with a story (a null result leaves the state as it is); the chapters    *)
(* listener delivers a list.                                               *)
(***************************************************************************)
StoryLoaded ==
  /\ mounted
  /\ story = "null"
  /\ story' = "present"
  /\ UNCHANGED <<clock, user, chapterIdParam, theme, font, fontSize,
                 prefsReady, chapters, mounted, deps, lsPrefs, lsProgress,
                 userPrefsDoc, userProgressDoc, merges, atSignIn, budget, rejects>>

ChaptersSnapshot ==
  /\ mounted
  /\ chapters = <<>>
  /\ chapters' = ChaptersSample
  /\ UNCHANGED <<clock, user, chapterIdParam, theme, font, fontSize,
                 prefsReady, story, mounted, deps, lsPrefs, lsProgress,
                 userPrefsDoc, userProgressDoc, merges, atSignIn, budget, rejects>>

(***************************************************************************)
(* User events                                                             *)
(***************************************************************************)
UseEdit == /\ mounted
           /\ budget.edits > 0
           /\ budget' = [budget EXCEPT !.edits = @ - 1]
           /\ atSignIn' = [atSignIn EXCEPT !.edited = TRUE]
           /\ merges' = [i \in DOMAIN merges |->
                           IF merges[i].pc = "done" THEN merges[i]
                           ELSE [merges[i] EXCEPT !.signIn.edited = TRUE]]

\* settings panel: onClick={() => setTheme(t)}
SetTheme(t) ==
  /\ UseEdit
  /\ t # theme
  /\ theme' = t
  /\ UNCHANGED <<clock, user, chapterIdParam, font, fontSize, prefsReady,
                 story, chapters, mounted, deps, lsPrefs, lsProgress,
                 userPrefsDoc, userProgressDoc, rejects>>

\* settings panel: onClick={() => setFont(value)}
SetFont(f) ==
  /\ UseEdit
  /\ f # font
  /\ font' = f
  /\ UNCHANGED <<clock, user, chapterIdParam, theme, fontSize, prefsReady,
                 story, chapters, mounted, deps, lsPrefs, lsProgress,
                 userPrefsDoc, userProgressDoc, rejects>>

\* settings panel: setFontSize((s) => clamp(s + d, 14, 26)), d = -1 or 1
StepFontSize(d) ==
  /\ UseEdit
  /\ clamp(fontSize + d, MinFontSize, MaxFontSize) # fontSize
  /\ fontSize' = clamp(fontSize + d, MinFontSize, MaxFontSize)
  /\ UNCHANGED <<clock, user, chapterIdParam, theme, font, prefsReady,
                 story, chapters, mounted, deps, lsPrefs, lsProgress,
                 userPrefsDoc, userProgressDoc, rejects>>

\* goToChapter(cid): navigate(`/read/${storyId}/${cid}`)
GoToChapter(cid) ==
  /\ UseEdit
  /\ cid \in {chapters[k] : k \in DOMAIN chapters}
  /\ cid # chapterIdParam
  /\ chapterIdParam' = cid
  /\ UNCHANGED <<clock, user, theme, font, fontSize, prefsReady, story,
                 chapters, mounted, deps, lsPrefs, lsProgress, userPrefsDoc,
                 userProgressDoc, rejects>>

\* useAuth(): the user signs in
Login ==
  /\ user = ""
  /\ budget.logins > 0
  /\ budget' = [budget EXCEPT !.logins = @ - 1]
  /\ user' = Uid
  /\ atSignIn' =
       [prefsRemoteNewer |-> /\ lsPrefs.present /\ userPrefsDoc.present
                             /\ Stamp(userPrefsDoc) > Stamp(lsPrefs),
        progressRemoteNewer |-> /\ lsProgress.present
                                /\ userProgressDoc.present
                                /\ Stamp(userProgressDoc) > Stamp(lsProgress),
        edited |-> FALSE]
  /\ UNCHANGED <<clock, chapterIdParam, theme, font, fontSize, prefsReady,
                 story, chapters, mounted, deps, lsPrefs, lsProgress,
                 userPrefsDoc, userProgressDoc, merges, rejects>>

\* useAuth(): the user signs out
Logout ==
  /\ user # ""
  /\ user' = ""
  /\ UNCHANGED <<clock, chapterIdParam, theme, font, fontSize, prefsReady,
                 story, chapters, mounted, deps, lsPrefs, lsProgress,
                 userPrefsDoc, userProgressDoc, merges, atSignIn, budget, rejects>>

(***************************************************************************)
(* The merge effect's async function, one action per await.                *)
(***************************************************************************)

\* `await loadPrefs(...)` or `await loadProgress(...)` rejects: the async
\* function ends there.
MergeLoadFails(i) ==
  /\ i \in DOMAIN merges
  /\ merges[i].pc \in {"loadPrefs", "loadProgress"}
  /\ merges' = SetMerge(i, [merges[i] EXCEPT !.pc = "failed"])
  /\ UNCHANGED <<clock, user, chapterIdParam, theme, font, fontSize,
                 prefsReady, story, chapters, mounted, deps, lsPrefs,
                 lsProgress, userPrefsDoc, userProgressDoc, atSignIn, budget, rejects>>

\* Reader.tsx 249-270: loadPrefs resolves; resolve, apply, write the loser.
\* When the remote copy or neither wins there is no await before line 273.
MergePrefs(i, ok, now) ==
  /\ i \in DOMAIN merges
  /\ merges[i].pc = "loadPrefs"
  /\ LET m == merges[i]
         localPrefs == m.localPrefs
         remotePrefs == userPrefsDoc
         best == BestOf(localPrefs, remotePrefs)
         bestPrefs == BestRecord(localPrefs, remotePrefs, NoPrefs)
         m1 == [m EXCEPT !.localPrefs = NoPrefs, !.bestPrefs = best]
     IN  /\ (best # "local" => ok /\ now = clock)
         /\ clock' = now
         /\ (~ok => rejects > 0)
         /\ rejects' = IF ok THEN rejects ELSE rejects - 1
         /\ theme' = IF best # "none" /\ bestPrefs.theme # ""
                     THEN bestPrefs.theme ELSE theme
         /\ font' = IF best # "none" /\ bestPrefs.font # ""
                    THEN bestPrefs.font ELSE font
         /\ fontSize' = IF best # "none" THEN bestPrefs.fontSize ELSE fontSize
         /\ IF best = "local"
            THEN /\ userPrefsDoc' =
                      savePrefs(userPrefsDoc, localPrefs.theme, localPrefs.font,
                                localPrefs.fontSize, ok, now)
                 /\ lsPrefs' = lsPrefs
                 /\ merges' = SetMerge(i, [m1 EXCEPT !.pc = "savePrefs",
                                                     !.writeOk = ok])
            ELSE /\ lsPrefs' = IF best = "remote" THEN remotePrefs ELSE lsPrefs
                 /\ userPrefsDoc' = userPrefsDoc
                 /\ merges' = SetMerge(i, [m1 EXCEPT !.pc = "loadProgress",
                                                     !.localProg = lsProgress])
  /\ UNCHANGED <<user, chapterIdParam, prefsReady, story, chapters,
                 mounted, deps, lsProgress, userProgressDoc, atSignIn, budget>>

\* Reader.tsx 262-266, 273: `await savePrefs(...)` settles.
MergeSavePrefsDone(i) ==
  /\ i \in DOMAIN merges
  /\ merges[i].pc = "savePrefs"
  /\ merges' = SetMerge(i,
       IF merges[i].writeOk
       THEN [merges[i] EXCEPT !.pc = "loadProgress", !.localProg = lsProgress]
       ELSE [merges[i] EXCEPT !.pc = "failed"])
  /\ UNCHANGED <<clock, user, chapterIdParam, theme, font, fontSize,
                 prefsReady, story, chapters, mounted, deps, lsPrefs,
                 lsProgress, userPrefsDoc, userProgressDoc, atSignIn, budget, rejects>>

\* Reader.tsx 274-291: loadProgress resolves; resolve, navigate, write the
\* loser.
MergeProgress(i, ok, now) ==
  /\ i \in DOMAIN merges
  /\ merges[i].pc = "loadProgress"
  /\ LET m == merges[i]
         localProg == m.localProg
         remoteProg == userProgressDoc
         best == BestOf(localProg, remoteProg)
         bestProg == BestRecord(localProg, remoteProg, NoProgress)
         has == best # "none" /\ bestProg.lastChapterId # ""
         nav == has /\ ShouldNavigate(bestProg.lastChapterId, m.chapterId)
         m1 == [m EXCEPT !.localProg = NoProgress, !.bestProg = best,
                         !.navTo = IF nav THEN bestProg.lastChapterId ELSE ""]
     IN  /\ (~(has /\ best = "local") => ok /\ now = clock)
         /\ clock' = now
         /\ (~ok => rejects > 0)
         /\ rejects' = IF ok THEN rejects ELSE rejects - 1
         /\ chapterIdParam' = IF nav THEN bestProg.lastChapterId
                              ELSE chapterIdParam
         /\ IF has /\ best = "local"
            THEN /\ userProgressDoc' =
                      saveProgress(userProgressDoc, localProg.lastChapterId,
                                   ok, now)
                 /\ lsProgress' = lsProgress
                 /\ merges' = SetMerge(i, [m1 EXCEPT !.pc = "saveProgress",
                                                     !.writeOk = ok])
            ELSE /\ lsProgress' = IF has THEN remoteProg ELSE lsProgress
                 /\ userProgressDoc' = userProgressDoc
                 /\ merges' = SetMerge(i, [m1 EXCEPT !.pc = "done"])
  /\ UNCHANGED <<user, theme, font, fontSize, prefsReady, story,
                 chapters, mounted, deps, lsPrefs, userPrefsDoc, atSignIn,
                 budget>>

\* Reader.tsx 287: `await saveProgress(...)` settles.
MergeSaveProgressDone(i) ==
  /\ i \in DOMAIN merges
  /\ merges[i].pc = "saveProgress"
  /\ merges' = SetMerge(i,
       IF merges[i].writeOk
       THEN [merges[i] EXCEPT !.pc = "done"]
       ELSE [merges[i] EXCEPT !.pc = "failed"])
  /\ UNCHANGED <<clock, user, chapterIdParam, theme, font, fontSize,
                 prefsReady, story, chapters, mounted, deps, lsPrefs,
                 lsProgress, userPrefsDoc, userProgressDoc, atSignIn, budget, rejects>>

(***************************************************************************)
(* Specification of the Reader                                             *)
(***************************************************************************)
MergeIds == 1..MaxLogins

Next ==
  \/ \E okPrefs, okProg \in BOOLEAN, now \in Times :
       Commit(okPrefs, okProg, now) /\ UNCHANGED <<storeVars, clientVars>>
  \/ StoryLoaded /\ UNCHANGED <<storeVars, clientVars>>
  \/ ChaptersSnapshot /\ UNCHANGED <<storeVars, clientVars>>
  \/ \E t \in Themes : SetTheme(t) /\ UNCHANGED <<storeVars, clientVars>>
  \/ \E f \in FontChoices : SetFont(f) /\ UNCHANGED <<storeVars, clientVars>>
  \/ \E d \in {-1, 1} : StepFontSize(d) /\ UNCHANGED <<storeVars, clientVars>>
  \/ \E cid \in ChapterIds : GoToChapter(cid) /\ UNCHANGED <<storeVars, clientVars>>
  \/ Login /\ UNCHANGED <<storeVars, clientVars>>
  \/ Logout /\ UNCHANGED <<storeVars, clientVars>>
  \/ \E i \in MergeIds : MergeLoadFails(i) /\ UNCHANGED <<storeVars, clientVars>>
  \/ \E i \in MergeIds, ok \in BOOLEAN, now \in Times :
       MergePrefs(i, ok, now) /\ UNCHANGED <<storeVars, clientVars>>
  \/ \E i \in MergeIds : MergeSavePrefsDone(i) /\ UNCHANGED <<storeVars, clientVars>>
  \/ \E i \in MergeIds, ok \in BOOLEAN, now \in Times :
       MergeProgress(i, ok, now) /\ UNCHANGED <<storeVars, clientVars>>
  \/ \E i \in MergeIds : MergeSaveProgressDone(i) /\ UNCHANGED <<storeVars, clientVars>>

Spec == Init /\ [][Next]_vars

(***************************************************************************)
(* Properties of the reconciliation                                        *)
(***************************************************************************)

\* the step in which run i of the merge resolves its preferences / progress
PrefsResolved(i) ==
  /\ merges[i].pc = "loadPrefs"
  /\ merges'[i].pc \in {"savePrefs", "loadProgress"}

ProgressResolved(i) ==
  /\ merges[i].pc = "loadProgress"
  /\ merges'[i].pc \in {"saveProgress", "done"}

\* the step in which run i of the merge completes
Completed(i) == merges[i].pc # "done" /\ merges'[i].pc = "done"

\* the rule of the specification, case by case
ChosenByRule(L, R, chosen) ==
  /\ ~R.present => chosen = (IF L.present THEN "local" ELSE "none")
  /\ (R.present /\ ~L.present) => chosen = "remote"
  /\ (R.present /\ L.present /\ Stamp(L) >= Stamp(R)) => chosen = "local"
  /\ (R.present /\ L.present /\ Stamp(R) > Stamp(L)) => chosen = "remote"

\* C1: for preferences and for progress, the record the reconciliation keeps,
\* given the local copy L it read from the cache and the remote copy R it
\* read from the store, is L when R is absent, R when only L is absent, and
\* otherwise L when L.updatedAt >= R.updatedAt (a missing stamp is 0) and R
\* when R.updatedAt > L.updatedAt: a tie keeps the local copy.
C1_ReconciliationChoice ==
  [][\A i \in DOMAIN merges :
       /\ PrefsResolved(i) =>
            ChosenByRule(merges[i].localPrefs, userPrefsDoc,
                         merges'[i].bestPrefs)
       /\ ProgressResolved(i) =>
            ChosenByRule(merges[i].localProg, userProgressDoc,
                         merges'[i].bestProg)]_vars

\* a completed reconciliation that kept the local preferences and the remote
\* progress
C1_Witness ==
  \E i \in DOMAIN merges :
    /\ merges[i].pc = "done"
    /\ merges[i].bestPrefs = "local"
    /\ merges[i].bestProg = "remote"

\* C2: a sign-in at which the remote record is strictly newer than the cached
\* one (local 1, remote 2) reconciles to the remote record, for preferences
\* and for progress, when the user edits nothing.
C2_RemoteNewerWins ==
  \A i \in DOMAIN merges :
    (merges[i].pc = "done" /\ budget.edits = MaxEdits) =>
      /\ merges[i].signIn.prefsRemoteNewer => merges[i].bestPrefs = "remote"
      /\ merges[i].signIn.progressRemoteNewer => merges[i].bestProg = "remote"

\* C3: when a reconciliation completes and the user has edited nothing since
\* the sign-in, the cache and the remote store hold the same preferences
\* (theme, font, fontSize), which are the ones applied to the page, and the
\* same lastChapterId.
C3_Converged ==
  [][\A i \in DOMAIN merges :
       (Completed(i) /\ ~merges'[i].signIn.edited) =>
         /\ lsPrefs'.present /\ userPrefsDoc'.present
         /\ PrefsValue(lsPrefs') = PrefsValue(userPrefsDoc')
         /\ PrefsValue(lsPrefs') = <<theme', font', fontSize'>>
         /\ lsProgress'.present /\ userProgressDoc'.present
         /\ lsProgress'.lastChapterId = userProgressDoc'.lastChapterId]_vars

\* a completed reconciliation without edits in which the remote progress won
C3_Witness ==
  \E i \in DOMAIN merges :
    /\ merges[i].pc = "done"
    /\ ~merges[i].signIn.edited
    /\ merges[i].bestProg = "remote"
    /\ lsProgress = userProgressDoc

\* C4: the progress reconciliation navigates to the winner's lastChapterId
\* exactly when the winner has a non-empty lastChapterId that differs from
\* the chapter being viewed.
C4_NavigatesIffDiffers ==
  [][\A i \in DOMAIN merges :
       ProgressResolved(i) =>
         LET L == merges[i].localProg
             R == userProgressDoc
             winner == IF merges'[i].bestProg = "local" THEN L
                       ELSE IF merges'[i].bestProg = "remote" THEN R
                       ELSE NoProgress
             differs == /\ winner.present
                        /\ winner.lastChapterId # ""
                        /\ winner.lastChapterId # chapterId
         IN  /\ (merges'[i].navTo # "") = differs
             /\ differs => /\ merges'[i].navTo = winner.lastChapterId
                           /\ chapterIdParam' = winner.lastChapterId
             /\ ~differs => chapterIdParam' = chapterIdParam]_vars

\* C5: the reconciliation runs at most once per sign-in; a commit starts a
\* run only when the signed-in user or prefsReady changed, never because of
\* an edit or a chapter change, and such a commit writes the new value to the
\* cache and, when signed in and the store accepts, to the remote store.
C5_OneShot ==
  [][/\ Len(merges') <= MaxLogins - budget'.logins
     /\ Len(merges') # Len(merges) =>
          (~mounted \/ deps.uid # user \/ deps.prefsReady # prefsReady)
     /\ (mounted /\ mounted' /\ deps' # deps /\ deps.prefsReady /\ prefsReady
         /\ <<deps.theme, deps.font, deps.fontSize>> # <<theme, font, fontSize>>)
          => /\ PrefsValue(lsPrefs') =
                  <<theme, font, clamp(fontSize, MinFontSize, MaxFontSize)>>
             /\ (user # "" /\ rejects' = rejects) =>
                  PrefsValue(userPrefsDoc') = PrefsValue(lsPrefs')
     /\ (mounted /\ mounted' /\ deps' # deps /\ deps.chapterId # chapterId)
          => /\ lsProgress'.lastChapterId = chapterId
             /\ (user # "" /\ rejects' = rejects) =>
                  userProgressDoc'.lastChapterId = chapterId]_vars

\* an edit made after a completed reconciliation has been committed, and
\* there is still the one run
C5_Witness ==
  /\ Len(merges) = 1
  /\ merges[1].pc = "done"
  /\ atSignIn.edited
  /\ mounted /\ ~NeedsRender

(***************************************************************************)
(* The chapter store adapter (src/data/db.ts)                              *)
(*                                                                         *)
(*  - A string the program computes with (a chapter id) is the sequence of *)
(*    its characters; a title or a content is an opaque value, a tuple     *)
(*    that tells where it comes from.                                      *)
(*  - A document is the record of its fields; a collection is the function *)
(*    from the ids of its documents to them.  <<>> is the missing document *)
(*    and the empty collection.                                            *)
(*  - A request to the store (setDoc, deleteDoc, getDocs, a batch commit)  *)
(*    settles in a later step than the one that issued it: it is applied   *)
(*    and resolves, or it is rejected and changes nothing.  A batch commit *)
(*    is atomic.  An operation is in progress until every request it       *)
(*    issued has settled.                                                  *)
(***************************************************************************)

(***************************************************************************)
(* Bounds of the store model                                               *)
(***************************************************************************)
MaxChapters == 1000
MaxCalls == 2
MaxFailures == 1
MaxStoreClock == 2

Digits == <<"0", "1", "2", "3", "4", "5", "6", "7", "8", "9">>

DigitValue(c) == (CHOOSE k \in DOMAIN Digits : Digits[k] = c) - 1

IsDigit(c) == \E k \in DOMAIN Digits : Digits[k] = c

\* String(n) for an integer n >= 0
RECURSIVE String(_)
String(n) ==
  IF n < 10 THEN <<Digits[n + 1]>>
  ELSE Append(String(n \div 10), Digits[(n % 10) + 1])

NaN == -1

RECURSIVE ParseDigits(_)
ParseDigits(s) ==
  IF s = <<>> THEN 0
  ELSE 10 * ParseDigits(SubSeq(s, 1, Len(s) - 1)) + DigitValue(s[Len(s)])

\* Number(s) for a string s over the digits and the letters: the empty
\* string is 0, a run of digits is its decimal value (leading zeros
\* dropped), anything else is NaN
Number(s) ==
  IF \A k \in DOMAIN s : IsDigit(s[k]) THEN ParseDigits(s) ELSE NaN

\* Number(id) || 0
NumOf(id) ==
  LET n == Number(id)
  IN  IF n = NaN \/ n = 0 THEN 0 ELSE n

Max(a, b) == IF a >= b THEN a ELSE b
Min(a, b) == IF a <= b THEN a ELSE b

\* batchUpsertChapters: the chunking constants
OPS_PER_CHAPTER == 2
MAX_OPS == 450
CHUNK_SIZE_NoMargin == Max(1, 500 \div OPS_PER_CHAPTER)
CHUNK_SIZE == Max(1, MAX_OPS \div OPS_PER_CHAPTER)

\* deleteAllChapters: limit(500)
PageLimit == 500

\* setDoc(ref, data, { merge: true }): the fields of data replace or extend
\* those of the document, which is created when missing
setDocKeepOld(old, data) ==
  [f \in DOMAIN old \cup DOMAIN data |->
     IF f \in DOMAIN old THEN old[f] ELSE data[f]]
setDocMerge(old, data) ==
  [f \in DOMAIN old \cup DOMAIN data |->
     IF f \in DOMAIN data THEN data[f] ELSE old[f]]

\* collection col after setDoc(doc(col, id), data, { merge: true })
SetIn(col, id, data) ==
  IF id \in DOMAIN col
  THEN [col EXCEPT ![id] = setDocMerge(col[id], data)]
  ELSE col @@ (id :> setDocMerge(<<>>, data))

\* collection col after the documents ids are deleted
DeleteIn(col, ids) == [id \in DOMAIN col \ ids |-> col[id]]

\* the data upsertChapter and batchUpsertChapters write for chapter ch
MetaData(ch, now) ==
  [id |-> ch.id, num |-> NumOf(ch.id), title |-> ch.title, updatedAt |-> now]

ContentData(ch, now) ==
  [id |-> ch.id, num |-> NumOf(ch.id), title |-> ch.title,
   content |-> ch.content, updatedAt |-> now]

(***************************************************************************)
(* Inputs: the chapter lists an import passes to batchUpsertChapters, the  *)
(* chapters saved one by one, and the stores the operations start from     *)
(***************************************************************************)
\* the chapter at position j of a list, with id id
Entry(id, j) ==
  [id |-> id, title |-> <<"title", j>>, content |-> <<"content", j>>]

\* chapters 1..n, as splitChapters numbers them
Numbered(n) == [j \in 1..n |-> Entry(String(j), j)]

\* 1: one chapter; 2: a repeated id, an id that is no number, the id "0"
\* and an id with leading zeros; 3: one full chunk; 4: a full chunk and a
\* chapter that repeats the id of the first; 5: two full chunks and one
\* chapter; 6: the largest import
Imports ==
  << Numbered(1),
     << Entry(String(1), 1), Entry(<<"a">>, 2), Entry(String(1), 3),
        Entry(String(0), 4), Entry(<<"0", "0", "7">>, 5) >>,
     Numbered(225),
     Append(Numbered(225), Entry(String(1), 226)),
     Numbered(451),
     Numbered(MaxChapters) >>

\* the chapters saved with upsertChapter
Edits == { Entry(String(1), 0), Entry(<<"a">>, 0) }

\* the ids deleteChapter is called with
Deletions == { String(1), String(3) }

\* a story with no chapter
EmptyStore ==
  [storyDoc |-> [title |-> "story", updatedAt |-> InitClock],
   chapters |-> <<>>, chaptersMeta |-> <<>>, lastChapterWrite |-> 0]

\* a story with chapter 1 in the legacy schema (one document, no id, no
\* num) and chapter 2 in the split schema, written at InitClock
SeededStore ==
  [storyDoc |-> [title |-> "story", updatedAt |-> InitClock],
   chapters |->
     (String(1) :> [title |-> <<"old title", 1>>,
                    content |-> <<"old content", 1>>,
                    updatedAt |-> InitClock])
     @@ (String(2) :> ContentData([id |-> String(2), title |-> <<"old title", 2>>,
                                   content |-> <<"old content", 2>>],
                                  InitClock)),
   chaptersMeta |->
     (String(2) :> MetaData([id |-> String(2), title |-> <<"old title", 2>>],
                            InitClock)),
   lastChapterWrite |-> InitClock]

Stores == {EmptyStore, SeededStore}

\* the Reader is not open
ReaderClosed ==
  /\ ReaderInit
  /\ chapterIdParam = ""
  /\ lsPrefs = NoPrefs
  /\ lsProgress = NoProgress
  /\ userPrefsDoc = NoPrefs
  /\ userProgressDoc = NoProgress

StoreInit ==
  /\ clock = InitClock
  /\ ReaderClosed
  /\ \E st \in Stores :
       /\ storyDoc = st.storyDoc
       /\ chaptersCol = st.chapters
       /\ chaptersMetaCol = st.chaptersMeta
       /\ lastChapterWrite = st.lastChapterWrite
  /\ call = NoCall
  /\ commits = <<>>
  /\ history = <<>>
  /\ before = [chapters |-> chaptersCol, chaptersMeta |-> chaptersMetaCol]
  /\ failures = MaxFailures
  /\ ClientsIdle

StoreTimes == clock..MaxStoreClock

\* no store operation is in progress
Idle == call.pc \in {"idle", "resolved", "rejected"}

(***************************************************************************)
(* batchUpsertChapters (db.ts 321-359)                                     *)
(***************************************************************************)
\* the batch.set calls of one batch, in the order the loop makes them
MetaWrites(slice, now) ==
  [j \in DOMAIN slice |->
     [id |-> slice[j].id, data |-> MetaData(slice[j], now)]]

ContentWrites(slice, now) ==
  [j \in DOMAIN slice |->
     [id |-> slice[j].id, data |-> ContentData(slice[j], now)]]

\* collection col after the merge-writes net (document id -> data)
MergeInto(col, net) ==
  [id \in DOMAIN col \cup DOMAIN net |->
     IF id \notin DOMAIN net THEN col[id]
     ELSE IF id \notin DOMAIN col THEN setDocMerge(<<>>, net[id])
     ELSE setDocMerge(col[id], net[id])]

\* a committed batch applies its writes in the order they were added: the
\* net effect of writes lo..hi is that of the first half followed by that of
\* the second half, document by document
RECURSIVE BatchEffectFirstWins(_, _, _)
BatchEffectFirstWins(writes, lo, hi) ==
  IF lo = hi THEN writes[lo].id :> writes[lo].data
  ELSE LET mid == (lo + hi) \div 2
       IN  MergeInto(BatchEffectFirstWins(writes, mid + 1, hi),
                     BatchEffectFirstWins(writes, lo, mid))
RECURSIVE BatchEffect(_, _, _)
BatchEffect(writes, lo, hi) ==
  IF lo = hi THEN writes[lo].id :> writes[lo].data
  ELSE LET mid == (lo + hi) \div 2
       IN  MergeInto(BatchEffect(writes, lo, mid),
                     BatchEffect(writes, mid + 1, hi))

\* the call ends: it resolves (ok) or rejects; done counts the commits of
\* its log that were applied
Ended(ok, log) ==
  Append(history, [op |-> call.op, arg |-> call.arg, ok |-> ok,
                   done |-> Len(SelectSeq(log, LAMBDA c : c.ok))])

\* a call is made: the collections are remembered unless it repeats the
\* call that ended last
Called(op, arg) ==
  IF /\ history # <<>>
     /\ history[Len(history)].op = op
     /\ history[Len(history)].arg = arg
  THEN before
  ELSE [chapters |-> chaptersCol, chaptersMeta |-> chaptersMetaCol]

\* batchUpsertChapters(storyId, Imports[k]) up to the first batch.commit()
batchUpsertChapters(k, now) ==
  /\ Idle
  /\ Len(history) < MaxCalls
  /\ clock' = now
  /\ call' = [NoCall EXCEPT !.op = "batchUpsertChapters", !.pc = "commit",
                            !.arg = k, !.now = now, !.i = 0]
  /\ commits' = <<>>
  /\ before' = Called("batchUpsertChapters", k)
  /\ UNCHANGED <<storyDoc, chaptersCol, chaptersMetaCol, history,
                 lastChapterWrite, failures, readerVars>>

\* the last chunk: i + CHUNK_SIZE >= chapters.length
IsLastChunk(i, n) == i + CHUNK_SIZE >= n

\* where the loop stands once await batch.commit() settled: a rejection is
\* thrown out of the loop, otherwise the next chunk is committed, if any
AfterCommitCaught(ok, more) ==
  IF more THEN "commit" ELSE "resolved"
AfterCommit(ok, more) ==
  IF ~ok THEN "rejected" ELSE IF more THEN "commit" ELSE "resolved"

\* await batch.commit() settles, and the loop goes on to the next commit
BatchCommit(ok) ==
  /\ call.op = "batchUpsertChapters"
  /\ call.pc = "commit"
  /\ ~ok => failures > 0
  /\ LET list == Imports[call.arg]
         n == Len(list)
         i == call.i
         hi == Min(i + CHUNK_SIZE, n)
         slice == SubSeq(list, i + 1, hi)
         bump == IsLastChunk(i, n)
         more == i + CHUNK_SIZE < n
     IN  /\ commits' = Append(commits,
                              [lo |-> i + 1, hi |-> hi, bump |-> bump,
                               ops |-> OPS_PER_CHAPTER * Len(slice)
                                         + (IF bump THEN 1 ELSE 0),
                               ok |-> ok])
         /\ IF ok
            THEN /\ chaptersMetaCol' =
                      MergeInto(chaptersMetaCol,
                                BatchEffect(MetaWrites(slice, call.now),
                                            1, Len(slice)))
                 /\ chaptersCol' =
                      MergeInto(chaptersCol,
                                BatchEffect(ContentWrites(slice, call.now),
                                            1, Len(slice)))
                 /\ storyDoc' = IF bump
                                THEN setDocMerge(storyDoc, [updatedAt |-> call.now])
                                ELSE storyDoc
                 /\ lastChapterWrite' = Max(lastChapterWrite, call.now)
                 /\ failures' = failures
            ELSE /\ failures' = failures - 1
                 /\ UNCHANGED <<storyDoc, chaptersCol, chaptersMetaCol,
                                lastChapterWrite>>
         /\ call' = [call EXCEPT !.pc = AfterCommit(ok, more),
                                 !.i = IF AfterCommit(ok, more) = "commit"
                                       THEN i + CHUNK_SIZE ELSE @]
         /\ history' = IF call'.pc = "commit" THEN history
                       ELSE Ended(call'.pc = "resolved", commits')
  /\ UNCHANGED <<clock, before, readerVars>>

(***************************************************************************)
(* upsertChapter (db.ts 253-288)                                           *)
(***************************************************************************)
WriteTargets == {"chaptersMeta", "chapters"}

\* upsertChapter(storyId, ch) up to the await of Promise.all
upsertChapter(ch, now) ==
  /\ Idle
  /\ Len(history) < MaxCalls
  /\ clock' = now
  /\ call' = [NoCall EXCEPT !.op = "upsertChapter", !.pc = "setDoc",
                            !.arg = ch, !.now = now,
                            !.inflight = WriteTargets]
  /\ commits' = <<>>
  /\ before' = Called("upsertChapter", ch)
  /\ UNCHANGED <<storyDoc, chaptersCol, chaptersMetaCol, history,
                 lastChapterWrite, failures, readerVars>>

\* the call after the request to collection c of its Promise.all settled:
\* when all have, the call goes on to bump the story or rejects
Settled(c, ok, now) ==
  LET left == call.inflight \ {c}
      failed == call.failed \/ ~ok
  IN  [call EXCEPT !.inflight = left,
                   !.failed = failed,
                   !.now = now,
                   !.pc = IF left # {} THEN @
                          ELSE IF failed THEN "rejected" ELSE "bump"]

\* one of the two setDoc of upsertChapter settles
UpsertSetDoc(c, ok) ==
  /\ call.op = "upsertChapter"
  /\ call.pc = "setDoc"
  /\ c \in call.inflight
  /\ ~ok => failures > 0
  /\ failures' = IF ok THEN failures ELSE failures - 1
  /\ chaptersMetaCol' =
       IF ok /\ c = "chaptersMeta"
       THEN SetIn(chaptersMetaCol, call.arg.id, MetaData(call.arg, call.now))
       ELSE chaptersMetaCol
  /\ chaptersCol' =
       IF ok /\ c = "chapters"
       THEN SetIn(chaptersCol, call.arg.id, ContentData(call.arg, call.now))
       ELSE chaptersCol
  /\ lastChapterWrite' =
       IF ok THEN Max(lastChapterWrite, call.now) ELSE lastChapterWrite
  /\ call' = Settled(c, ok, call.now)
  /\ history' = IF call'.pc = "rejected" THEN Ended(FALSE, <<>>) ELSE history
  /\ UNCHANGED <<clock, storyDoc, commits, before, readerVars>>

\* await setDoc(storyRef(storyId), { updatedAt }, { merge: true }) settles:
\* the last request of upsertChapter, deleteChapter and deleteAllChapters
BumpStory(ok) ==
  /\ call.pc = "bump"
  /\ ~ok => failures > 0
  /\ failures' = IF ok THEN failures ELSE failures - 1
  /\ storyDoc' = IF ok THEN setDocMerge(storyDoc, [updatedAt |-> call.now])
                 ELSE storyDoc
  /\ call' = [call EXCEPT !.pc = IF ok THEN "resolved" ELSE "rejected"]
  /\ commits' = Append(commits, [lo |-> 0, hi |-> 0, bump |-> TRUE,
                                  ops |-> 1, ok |-> ok])
  /\ history' = Ended(ok, <<>>)
  /\ UNCHANGED <<clock, chaptersCol, chaptersMetaCol, before,
                 lastChapterWrite, readerVars>>

(***************************************************************************)
(* deleteChapter (db.ts 365-371)                                           *)
(***************************************************************************)
\* deleteChapter(storyId, id) up to the await of Promise.all
deleteChapter(id) ==
  /\ Idle
  /\ Len(history) < MaxCalls
  /\ call' = [NoCall EXCEPT !.op = "deleteChapter", !.pc = "deleteDoc",
                            !.arg = id, !.inflight = WriteTargets]
  /\ commits' = <<>>
  /\ before' = Called("deleteChapter", id)
  /\ UNCHANGED <<clock, storyDoc, chaptersCol, chaptersMetaCol, history,
                 lastChapterWrite, failures, readerVars>>

\* one of the two deleteDoc of deleteChapter settles; when both resolved
\* the story is stamped with the Date.now() of that moment
DeleteDoc(c, ok, now) ==
  /\ call.op = "deleteChapter"
  /\ call.pc = "deleteDoc"
  /\ c \in call.inflight
  /\ ~ok => failures > 0
  /\ failures' = IF ok THEN failures ELSE failures - 1
  /\ call' = Settled(c, ok, now)
  /\ IF call'.pc = "bump" THEN clock' = now ELSE now = clock /\ clock' = clock
  /\ chaptersMetaCol' =
       IF ok /\ c = "chaptersMeta"
       THEN DeleteIn(chaptersMetaCol, {call.arg}) ELSE chaptersMetaCol
  /\ chaptersCol' =
       IF ok /\ c = "chapters"
       THEN DeleteIn(chaptersCol, {call.arg}) ELSE chaptersCol
  /\ lastChapterWrite' =
       IF ok /\ (chaptersMetaCol' # chaptersMetaCol \/ chaptersCol' # chaptersCol)
       THEN Max(lastChapterWrite, clock) ELSE lastChapterWrite
  /\ history' = IF call'.pc = "rejected" THEN Ended(FALSE, <<>>) ELSE history
  /\ UNCHANGED <<storyDoc, commits, before, readerVars>>

(***************************************************************************)
(* deleteAllChapters (db.ts 373-391)                                       *)
(***************************************************************************)
\* the order of characters: the digits, then the letters
CharCode(c) == IF IsDigit(c) THEN DigitValue(c) ELSE 10

\* document ids in the order of a query with no orderBy: by document name
RECURSIVE NameBefore(_, _)
NameBefore(a, b) ==
  IF a = <<>> THEN b # <<>>
  ELSE IF b = <<>> THEN FALSE
  ELSE IF a[1] # b[1] THEN CharCode(a[1]) < CharCode(b[1])
  ELSE NameBefore(Tail(a), Tail(b))

\* every document id of the model, by document name
DocOrder ==
  SortSeq([k \in 1..MaxChapters |-> String(k)]
            \o << <<"a">>, String(0), <<"0", "0", "7">> >>,
          NameBefore)

\* getDocs(query(col, limit(500))): the ids of the first documents of col
Page(col) ==
  LET docs == SelectSeq(DocOrder, LAMBDA d : d \in DOMAIN col)
  IN  {docs[k] : k \in 1..Min(PageLimit, Len(docs))}

ColOf(c) == IF c = "chapters" THEN chaptersCol ELSE chaptersMetaCol

\* deleteAllChapters(storyId) up to the first await getDocs
\* (faulty variant: the metadata collection is paged first and the content
\* collection is left alone)
deleteAllChaptersMetaOnly ==
  /\ Idle
  /\ Len(history) < MaxCalls
  /\ call' = [NoCall EXCEPT !.op = "deleteAllChapters", !.pc = "getDocs",
                            !.col = "chaptersMeta"]
  /\ commits' = <<>>
  /\ before' = Called("deleteAllChapters", <<>>)
  /\ UNCHANGED <<clock, storyDoc, chaptersCol, chaptersMetaCol, history,
                 lastChapterWrite, failures, readerVars>>
deleteAllChapters ==
  /\ Idle
  /\ Len(history) < MaxCalls
  /\ call' = [NoCall EXCEPT !.op = "deleteAllChapters", !.pc = "getDocs",
                            !.col = "chapters"]
  /\ commits' = <<>>
  /\ before' = Called("deleteAllChapters", <<>>)
  /\ UNCHANGED <<clock, storyDoc, chaptersCol, chaptersMetaCol, history,
                 lastChapterWrite, failures, readerVars>>

\* deletePaged: await getDocs(qy) settles.  An empty page ends the loop:
\* the content collection is followed by the metadata collection, and that
\* by the story's stamp, the Date.now() of that moment; any other page is
\* put in a batch of deletes, which is committed
DeletePagedGetDocs(ok, now) ==
  /\ call.op = "deleteAllChapters"
  /\ call.pc = "getDocs"
  /\ ~ok => failures > 0
  /\ failures' = IF ok THEN failures ELSE failures - 1
  /\ LET page == Page(ColOf(call.col))
     IN  call' =
           IF ~ok THEN [call EXCEPT !.pc = "rejected"]
           ELSE IF page # {} THEN [call EXCEPT !.pc = "commit", !.page = page]
           ELSE IF call.col = "chapters"
                THEN [call EXCEPT !.col = "chaptersMeta"]
                ELSE [call EXCEPT !.pc = "bump", !.now = now]
  /\ IF call'.pc = "bump" THEN clock' = now ELSE now = clock /\ clock' = clock
  /\ history' = IF ok THEN history ELSE Ended(FALSE, commits)
  /\ UNCHANGED <<storyDoc, chaptersCol, chaptersMetaCol, commits, before,
                 lastChapterWrite, readerVars>>

\* deletePaged: await batch.commit() settles
DeletePagedCommit(ok) ==
  /\ call.op = "deleteAllChapters"
  /\ call.pc = "commit"
  /\ ~ok => failures > 0
  /\ failures' = IF ok THEN failures ELSE failures - 1
  /\ commits' = Append(commits,
                       [lo |-> 0, hi |-> 0, bump |-> FALSE,
                        ops |-> Cardinality(call.page), ok |-> ok])
  /\ chaptersCol' = IF ok /\ call.col = "chapters"
                    THEN DeleteIn(chaptersCol, call.page) ELSE chaptersCol
  /\ chaptersMetaCol' = IF ok /\ call.col = "chaptersMeta"
                        THEN DeleteIn(chaptersMetaCol, call.page)
                        ELSE chaptersMetaCol
  /\ lastChapterWrite' =
       IF ok THEN Max(lastChapterWrite, clock) ELSE lastChapterWrite
  /\ call' = IF ok THEN [call EXCEPT !.pc = "getDocs", !.page = {}]
             ELSE [call EXCEPT !.pc = "rejected"]
  /\ history' = IF ok THEN history ELSE Ended(FALSE, commits')
  /\ UNCHANGED <<clock, storyDoc, before, readerVars>>

(***************************************************************************)
(* Specification of the store adapter: one caller, one call at a time      *)
(***************************************************************************)
NextStore ==
  \/ \E k \in DOMAIN Imports, now \in StoreTimes :
       batchUpsertChapters(k, now) /\ UNCHANGED clientVars
  \/ \E ok \in BOOLEAN : BatchCommit(ok) /\ UNCHANGED clientVars
  \/ \E ch \in Edits, now \in StoreTimes :
       upsertChapter(ch, now) /\ UNCHANGED clientVars
  \/ \E c \in WriteTargets, ok \in BOOLEAN :
       UpsertSetDoc(c, ok) /\ UNCHANGED clientVars
  \/ \E ok \in BOOLEAN : BumpStory(ok) /\ UNCHANGED clientVars
  \/ \E id \in Deletions : deleteChapter(id) /\ UNCHANGED clientVars
  \/ \E c \in WriteTargets, ok \in BOOLEAN, now \in StoreTimes :
       DeleteDoc(c, ok, now) /\ UNCHANGED clientVars
  \/ deleteAllChapters /\ UNCHANGED clientVars
  \/ \E ok \in BOOLEAN, now \in StoreTimes :
       DeletePagedGetDocs(ok, now) /\ UNCHANGED clientVars
  \/ \E ok \in BOOLEAN : DeletePagedCommit(ok) /\ UNCHANGED clientVars

SpecStore == StoreInit /\ [][NextStore]_vars

\* a request of deleteAllChapters is answered, with a result or a rejection
DeleteAllResponds ==
  \/ \E ok \in BOOLEAN, now \in StoreTimes :
       DeletePagedGetDocs(ok, now) /\ UNCHANGED clientVars
  \/ \E ok \in BOOLEAN : DeletePagedCommit(ok) /\ UNCHANGED clientVars
  \/ \E ok \in BOOLEAN : BumpStory(ok) /\ UNCHANGED clientVars

\* the store answers every request deleteAllChapters makes to it
SpecStoreFair == SpecStore /\ WF_vars(DeleteAllResponds)

(***************************************************************************)
(* Properties of the store adapter                                         *)
(***************************************************************************)
IsBatch == call.op = "batchUpsertChapters"

\* the list the batch call was given
BatchList == Imports[call.arg]

\* C6: a call of batchUpsertChapters on n >= 1 chapters commits them 225 at
\* a time, in list order: its c-th commit holds chapters 225(c-1)+1 ..
\* min(225c, n), two writes for each, and the write of the story's
\* updatedAt exactly when it is commit number ceil(n / 225); a call that
\* resolved issued exactly ceil(n / 225) commits, 5 for n = 1000.
C6_BatchChunking ==
  IsBatch =>
    LET n == Len(BatchList)
        last == (n + 224) \div 225
    IN  /\ n >= 1
        /\ Len(commits) <= last
        /\ \A c \in DOMAIN commits :
             /\ commits[c].lo = 225 * (c - 1) + 1
             /\ commits[c].hi = (IF 225 * c < n THEN 225 * c ELSE n)
             /\ commits[c].hi - commits[c].lo + 1 <= 225
             /\ commits[c].bump <=> (c = last)
             /\ commits[c].ops = 2 * (commits[c].hi - commits[c].lo + 1)
                                   + (IF c = last THEN 1 ELSE 0)
             /\ c < Len(commits) => commits[c].ok
        /\ call.pc = "resolved" =>
             /\ Len(commits) = last
             /\ commits[last].ok
             /\ n = 1000 => Len(commits) = 5

\* a resolved import of 1000 chapters, with its 5 commits
C6_Witness ==
  /\ IsBatch
  /\ call.pc = "resolved"
  /\ Len(BatchList) = 1000
  /\ Len(commits) = 5
  /\ commits[5].bump

\* the ids of the chapters lo..hi of list
IdsOf(list, lo, hi) == {list[j].id : j \in lo..hi}

\* the step in which a commit of batchUpsertChapters settles / is rejected
CommitSettles == IsBatch /\ call.pc = "commit" /\ Len(commits') = Len(commits) + 1
CommitFails == CommitSettles /\ ~commits'[Len(commits')].ok

\* document id of both collections holds a chapter of list[lo..hi],
\* written with stamp now
Persisted(id, list, lo, hi, now) ==
  /\ id \in DOMAIN chaptersCol' /\ id \in DOMAIN chaptersMetaCol'
  /\ \E j \in lo..hi :
       /\ list[j].id = id
       /\ chaptersCol'[id].title = list[j].title
       /\ chaptersCol'[id].content = list[j].content
       /\ chaptersMetaCol'[id].title = list[j].title
  /\ chaptersCol'[id].updatedAt = now
  /\ chaptersMetaCol'[id].updatedAt = now

\* C7: when the commit of chunk k+1 of a batchUpsertChapters call is
\* rejected, the chapters of chunks 1..k are persisted in both collections,
\* the step writes nothing, the call rejects and issues no further commit;
\* a commit that is applied writes only documents of its own chunk, so no
\* chapter of chunks k+1..n is written by the call.
C7_FailureKeepsPrefix ==
  [][/\ CommitFails =>
          LET k == Len(commits)
          IN  /\ \A id \in IdsOf(BatchList, 1, commits'[k + 1].lo - 1) :
                   Persisted(id, BatchList, 1, commits'[k + 1].lo - 1, call.now)
              /\ chaptersCol' = chaptersCol
              /\ chaptersMetaCol' = chaptersMetaCol
              /\ storyDoc' = storyDoc
              /\ call'.pc = "rejected"
              /\ history' = Append(history, [op |-> call.op, arg |-> call.arg,
                                             ok |-> FALSE, done |-> k])
     /\ (CommitSettles /\ ~CommitFails) =>
          LET c == commits'[Len(commits')]
              own == IdsOf(BatchList, c.lo, c.hi)
          IN  /\ \A id \in DOMAIN chaptersCol' \ own :
                   id \in DOMAIN chaptersCol /\ chaptersCol'[id] = chaptersCol[id]
              /\ \A id \in DOMAIN chaptersMetaCol' \ own :
                   /\ id \in DOMAIN chaptersMetaCol
                   /\ chaptersMetaCol'[id] = chaptersMetaCol[id]
     /\ (IsBatch /\ call.pc = "rejected") =>
          /\ chaptersCol' = chaptersCol
          /\ chaptersMetaCol' = chaptersMetaCol
          /\ commits' = commits \/ commits' = <<>>]_vars

\* an import of 451 chapters rejected at its second commit: the first chunk
\* is stored, the third was never committed
C7_Witness ==
  /\ IsBatch
  /\ call.pc = "rejected"
  /\ Len(BatchList) = 451
  /\ Len(commits) = 2
  /\ commits[1].ok /\ ~commits[2].ok
  /\ String(225) \in DOMAIN chaptersCol
  /\ String(226) \notin DOMAIN chaptersCol

\* the updatedAt of a document, 0 when it has none
StampOf(d) == IF "updatedAt" \in DOMAIN d THEN d.updatedAt ELSE 0

\* C8: in every state in which no store operation is in progress the
\* story's updatedAt is no earlier than the time of the latest persisted
\* chapter write or delete.
C8_StoryStampCoversWrites ==
  Idle => StampOf(storyDoc) >= lastChapterWrite

\* the last position of list that holds a chapter with id id
LastIndex(list, id) ==
  LET at == {j \in DOMAIN list : list[j].id = id}
  IN  CHOOSE j \in at : \A j2 \in at : j2 <= j

\* what a completed upsert of chapter ch leaves of it in the two collections
StoredAs(ch) ==
  /\ ch.id \in DOMAIN chaptersCol /\ ch.id \in DOMAIN chaptersMetaCol
  /\ chaptersCol[ch.id].id = ch.id
  /\ chaptersCol[ch.id].num = NumOf(ch.id)
  /\ chaptersCol[ch.id].title = ch.title
  /\ chaptersCol[ch.id].content = ch.content
  /\ chaptersMetaCol[ch.id].id = ch.id
  /\ chaptersMetaCol[ch.id].num = NumOf(ch.id)
  /\ chaptersMetaCol[ch.id].title = ch.title

\* the documents of col other than ids are those of col0, unchanged
OthersKept(col, col0, ids) ==
  /\ DOMAIN col \ ids = DOMAIN col0 \ ids
  /\ \A id \in DOMAIN col \ ids : col[id] = col0[id]

\* the call that resolved repeats the call that ended before it
Repeated ==
  /\ call.pc = "resolved"
  /\ Len(history) >= 2
  /\ history[Len(history) - 1].op = call.op
  /\ history[Len(history) - 1].arg = call.arg

\* C9: when batchUpsertChapters or upsertChapter is run again with the same
\* chapters, after a failed or a completed run, and completes, every chapter
\* id of the list holds in both collections the id, num, title and content
\* one failure-free run leaves (those of the last chapter of the list with
\* that id), and the other documents are as they were before the first run.
C9_RetryIsIdempotent ==
  /\ (Repeated /\ IsBatch) =>
       /\ \A id \in IdsOf(BatchList, 1, Len(BatchList)) :
            StoredAs(BatchList[LastIndex(BatchList, id)])
       /\ OthersKept(chaptersCol, before.chapters,
                     IdsOf(BatchList, 1, Len(BatchList)))
       /\ OthersKept(chaptersMetaCol, before.chaptersMeta,
                     IdsOf(BatchList, 1, Len(BatchList)))
  /\ (Repeated /\ call.op = "upsertChapter") =>
       /\ StoredAs(call.arg)
       /\ OthersKept(chaptersCol, before.chapters, {call.arg.id})
       /\ OthersKept(chaptersMetaCol, before.chaptersMeta, {call.arg.id})

\* the import of 451 chapters was rejected after its first chunk, was run
\* again and resolved, over a store that held chapters 1 and 2
C9_Witness ==
  /\ Repeated /\ IsBatch
  /\ Len(BatchList) = 451
  /\ ~history[1].ok /\ history[1].done = 1
  /\ before.chapters # <<>>
  /\ chaptersCol[String(1)].title = <<"title", 1>>

\* the ids that occur more than once in list
Repeats(list) ==
  IF Cardinality(IdsOf(list, 1, Len(list))) = Len(list) THEN {}
  ELSE {id \in IdsOf(list, 1, Len(list)) :
          Cardinality({j \in DOMAIN list : list[j].id = id}) > 1}

\* C10: after batchUpsertChapters resolved on a list in which an id occurs
\* more than once, the title and the content stored for that id are those
\* of the last chapter of the list with that id.
C10_LastDuplicateWins ==
  (IsBatch /\ call.pc = "resolved") =>
    \A id \in Repeats(BatchList) :
      LET ch == BatchList[LastIndex(BatchList, id)]
      IN  /\ chaptersCol[id].title = ch.title
          /\ chaptersCol[id].content = ch.content
          /\ chaptersMetaCol[id].title = ch.title

\* two imports resolved: one with the repeated id inside a chunk, one with
\* it in the first and in the second chunk
C10_Witness ==
  /\ IsBatch /\ call.pc = "resolved"
  /\ Len(history) = 2
  /\ history[1].op = "batchUpsertChapters" /\ history[1].ok
  /\ Len(Imports[history[1].arg]) < 225
  /\ Repeats(Imports[history[1].arg]) # {}
  /\ Len(BatchList) > 225
  /\ LastIndex(BatchList, String(1)) = 226
  /\ chaptersCol[String(1)].content = <<"content", 226>>

(***************************************************************************)
(* Reads of the chapter store (db.ts 185-251)                              *)
(***************************************************************************)
\* the empty string, as a title or a content
EmptyString == <<>>

\* data.f ?? default
FieldOr(data, f, default) == IF f \in DOMAIN data THEN data[f] ELSE default

\* getDocs(query(col, orderBy("num", "asc"))): the ids of the documents of
\* col that have a field num, by num and then by document name
ByNum(col) ==
  SortSeq(SelectSeq(DocOrder,
                    LAMBDA d : d \in DOMAIN col /\ "num" \in DOMAIN col[d]),
          LAMBDA a, b : \/ col[a].num < col[b].num
                        \/ col[a].num = col[b].num /\ NameBefore(a, b))

\* the ChapterMeta made of document id: Number(data.num ?? Number(d.id) ?? 0),
\* data.title ?? "", data.updatedAt ?? 0
ToMeta(id, data) ==
  [id |-> id,
   num |-> IF "num" \in DOMAIN data THEN data.num ELSE Number(id),
   title |-> FieldOr(data, "title", EmptyString),
   updatedAt |-> FieldOr(data, "updatedAt", 0)]

\* snap.docs.map(...) of the query on col
MetasOf(col) ==
  LET ids == ByNum(col)
  IN  [k \in DOMAIN ids |-> ToMeta(ids[k], col[ids[k]])]

\* what getChapterMetas returns when it reads the collections meta and
\* legacy: the metadata list, or the legacy list when that one is empty
getChapterMetasOf(meta, legacy) ==
  IF MetasOf(meta) # <<>> THEN MetasOf(meta) ELSE MetasOf(legacy)

\* what getStory returns when its read finds the document doc
StoryOf(doc) ==
  IF doc = <<>> THEN [kind |-> "null"]
  ELSE [kind |-> "story",
        title |-> FieldOr(doc, "title", ""),
        updatedAt |-> FieldOr(doc, "updatedAt", 0)]

(***************************************************************************)
(* The Admin page (router.tsx 551-650)                                     *)
(*                                                                         *)
(* A file is its name, what readDocxToText makes of it (a text, the empty  *)
(* text, or an error when it is no document) and, for a text, the chapter  *)
(* list splitChapters makes of that text, a member of Imports.             *)
(***************************************************************************)
File(name, content, chs) == [name |-> name, content |-> content, chs |-> chs]

\* String.prototype.toLowerCase, on the characters of the names
toLowerCase(str) ==
  [k \in DOMAIN str |->
     CASE str[k] = "D" -> "d"
       [] str[k] = "O" -> "o"
       [] str[k] = "C" -> "c"
       [] str[k] = "X" -> "x"
       [] OTHER -> str[k]]

\* str.split(".").pop(): what follows the last "." of str, all of str when
\* it has none
LastPart(str) ==
  LET dots == {k \in DOMAIN str : str[k] = "."}
  IN  IF dots = {} THEN str
      ELSE SubSeq(str, (CHOOSE k \in dots : \A d \in dots : d <= k) + 1,
                  Len(str))

\* file.name.toLowerCase().split(".").pop()
ExtOf(file) == LastPart(toLowerCase(file.name))

\* the file passes the two tests of the loop: ext is not "doc", and is "docx"
IsProcessed(file) ==
  /\ ExtOf(file) # <<"d", "o", "c">>
  /\ ExtOf(file) = <<"d", "o", "c", "x">>

Docx == <<".", "d", "o", "c", "x">>

\* the lists of files handed to handleFiles
FileLists ==
  << <<>>,
     << File(<<"a">> \o Docx, "text", 1) >>,
     << File(<<"a", ".", "d", "o", "c">>, "text", 1),
        File(<<"b">> \o Docx, "text", 2) >>,
     << File(<<"b", ".", "D", "O", "C", "X">>, "text", 2),
        File(<<"a", ".", "t", "x", "t">>, "text", 1),
        File(<<"a">> \o Docx, "text", 1) >>,
     << File(<<"d", "o", "c", "x">>, "text", 1) >>,
     << File(<<"a", ".", "d", "o", "c">>, "text", 1),
        File(<<"a">>, "text", 1) >>,
     << File(<<"e">> \o Docx, "empty", 0),
        File(<<"a">> \o Docx \o <<".", "d", "o", "c">>, "text", 1),
        File(<<"a">> \o Docx, "text", 1) >>,
     << File(<<"c">> \o Docx, "error", 0),
        File(<<"a">> \o Docx, "text", 1) >> >>

\* the ids that occur more than once in chs: the entries of seen with n > 1
dups(chs) ==
  {id \in {chs[j].id : j \in DOMAIN chs} :
     Cardinality({j \in DOMAIN chs : chs[j].id = id}) > 1}

\* the first file from position i on that the loop processes, past the end
\* of files when there is none
NextProcessed(files, i) ==
  LET c == {j \in i..Len(files) : IsProcessed(files[j])}
  IN  IF c = {} THEN Len(files) + 1 ELSE CHOOSE j \in c : \A j2 \in c : j <= j2

\* setImportInfo(null)
NoImportInfo == [present |-> FALSE, files |-> 0, chapters |-> 0]

\* handleFiles from position i of its loop to its next await, a being the
\* handler's record, m the message and info the import summary so far: the
\* files that are not processed are passed over; readDocxToText is awaited
\* for the first that is; after the last file the summary and the final
\* message are set and reloadAll awaits getStory
LoopFrom(a, i, m, info) ==
  LET j == NextProcessed(a.files, i)
  IN  IF j <= Len(a.files)
      THEN /\ admin' = [a EXCEPT !.pc = "readDocxToText", !.idx = j]
           /\ msg' = m
           /\ importInfo' = info
      ELSE /\ admin' = [a EXCEPT !.pc = "getStory", !.idx = j]
           /\ importInfo' = [present |-> TRUE, files |-> a.importedFiles,
                             chapters |-> a.totalChapters]
           /\ msg' = IF a.importedFiles = 0 THEN Msg("noValidFile", <<>>)
                     ELSE Msg("imported",
                              <<a.importedFiles, a.totalChapters>>)

\* the number of store writes handleFiles makes for the list files
WritesOf(files) ==
  Cardinality({j \in DOMAIN files :
                 IsProcessed(files[j]) /\ files[j].content = "text"})

\* handleFiles(files), to its first await
handleFiles(l) ==
  /\ admin.pc = "idle"
  /\ Idle
  /\ Len(history) + WritesOf(FileLists[l]) <= MaxCalls
  /\ IF FileLists[l] = <<>>
     THEN /\ msg' = Msg("", <<>>)
          /\ importInfo' = NoImportInfo
          /\ admin' = [admin EXCEPT !.op = "handleFiles", !.files = <<>>,
                                    !.idx = 0, !.failed = "",
                                    !.threw = FALSE]
          /\ UNCHANGED busy
     ELSE /\ busy' = TRUE
          /\ LoopFrom([admin EXCEPT !.op = "handleFiles",
                                    !.files = FileLists[l],
                                    !.totalChapters = 0,
                                    !.importedFiles = 0,
                                    !.warned = {},
                                    !.failed = "",
                                    !.threw = FALSE],
                      1, Msg("", <<>>), NoImportInfo)
  /\ UNCHANGED <<clock, readerVars, storeVars, read, listener, text, other>>

\* a handler ends: the catch of handleFiles sets the error message, the
\* other handlers have no catch and let the rejection go; finally
\* setBusy(false), which the effect's reloadAll does not have
Ends(a, failed, what) ==
  /\ admin' = [a EXCEPT !.pc = "idle",
                        !.failed = IF failed THEN what ELSE "",
                        !.threw = failed /\ a.op # "handleFiles"]
  /\ busy' = IF a.op = "mount" THEN busy ELSE FALSE
  /\ msg' = IF failed /\ a.op = "handleFiles"
            THEN Msg("importError", <<what>>) ELSE msg

\* await readDocxToText(file) settles: a file that is no document rejects,
\* one with no text is passed over, the text of any other is split, the
\* duplicate warning is set when ids repeat, and batchUpsertChapters is
\* called
ReadDocxSettles(now) ==
  /\ admin.pc = "readDocxToText"
  /\ LET file == admin.files[admin.idx]
     IN  CASE file.content = "error" ->
                /\ now = clock
                /\ Ends(admin, TRUE, "readDocxToText")
                /\ UNCHANGED <<clock, readerVars, storeVars, importInfo>>
           [] file.content = "empty" ->
                /\ now = clock
                /\ LoopFrom(admin, admin.idx + 1, msg, importInfo)
                /\ UNCHANGED <<clock, readerVars, storeVars, busy>>
           [] OTHER ->
                /\ msg' = IF dups(Imports[file.chs]) # {}
                          THEN Msg("warning", <<admin.idx>>) ELSE msg
                /\ admin' = [admin EXCEPT
                               !.pc = "batchUpsertChapters",
                               !.warned = IF dups(Imports[file.chs]) # {}
                                          THEN @ \cup {admin.idx} ELSE @]
                /\ batchUpsertChapters(file.chs, now)
                /\ UNCHANGED <<importInfo, busy>>
  /\ UNCHANGED <<read, listener, text, other>>

\* onDeleteAll(), to its await of deleteAllChapters
onDeleteAll ==
  /\ admin.pc = "idle"
  /\ busy' = TRUE
  /\ admin' = [admin EXCEPT !.op = "onDeleteAll", !.pc = "deleteAllChapters",
                            !.failed = "", !.threw = FALSE]
  /\ deleteAllChapters
  /\ UNCHANGED <<msg, importInfo, read, listener, text, other>>

\* onDeleteOne(chapterId), to its await of deleteChapter
onDeleteOne(id) ==
  /\ admin.pc = "idle"
  /\ busy' = TRUE
  /\ admin' = [admin EXCEPT !.op = "onDeleteOne", !.pc = "deleteChapter",
                            !.failed = "", !.threw = FALSE]
  /\ deleteChapter(id)
  /\ UNCHANGED <<msg, importInfo, read, listener, text, other>>

\* the handler that awaits the store call goes on when the call settled
\* (settle is a step of the call): handleFiles counts the file and goes on
\* with its loop, the delete handlers set their message and reloadAll
\* awaits getStory; a rejection ends the handler
Resumes(settle) ==
  /\ admin.pc \in {"batchUpsertChapters", "deleteAllChapters", "deleteChapter"}
  /\ settle
  /\ CASE call'.pc = "rejected" ->
            /\ Ends(admin, TRUE, call.op)
            /\ UNCHANGED importInfo
       [] call'.pc = "resolved" /\ admin.op = "handleFiles" ->
            /\ LoopFrom([admin EXCEPT
                           !.totalChapters =
                              @ + Len(Imports[admin.files[admin.idx].chs]),
                           !.importedFiles = @ + 1],
                        admin.idx + 1, msg, importInfo)
            /\ UNCHANGED busy
       [] call'.pc = "resolved" /\ admin.op = "onDeleteAll" ->
            /\ msg' = Msg("deletedAll", <<>>)
            /\ importInfo' = NoImportInfo
            /\ admin' = [admin EXCEPT !.pc = "getStory"]
            /\ UNCHANGED busy
       [] call'.pc = "resolved" /\ admin.op = "onDeleteOne" ->
            /\ msg' = Msg("deletedOne", <<call.arg>>)
            /\ admin' = [admin EXCEPT !.pc = "getStory"]
            /\ UNCHANGED <<importInfo, busy>>
       [] OTHER -> UNCHANGED <<admin, msg, importInfo, busy>>
  /\ UNCHANGED <<read, listener, text, other>>

\* the effect that runs once after the first render: reloadAll()
useEffectReloadAll ==
  /\ admin.op = "none"
  /\ admin.pc = "idle"
  /\ admin' = [admin EXCEPT !.op = "mount", !.pc = "getStory"]
  /\ UNCHANGED <<clock, readerVars, storeVars, msg, importInfo, busy, read,
                 listener, text, other>>

\* reloadAll: await getStory(storyId) settles, with a story or null, or it
\* rejects; setStoryTitle(story?.title ?? "Admin")
ReloadGetStory(ok) ==
  /\ admin.pc = "getStory"
  /\ IF ok
     THEN /\ admin' = [admin EXCEPT
                         !.pc = "getChapterMetas",
                         !.storyTitle = IF StoryOf(storyDoc).kind = "null"
                                        THEN "Admin"
                                        ELSE StoryOf(storyDoc).title]
          /\ UNCHANGED <<msg, busy>>
     ELSE Ends(admin, TRUE, "getStory")
  /\ UNCHANGED <<clock, readerVars, storeVars, importInfo, read, listener,
                 text, other>>

\* reloadAll: await getChapterMetas(storyId) settles;
\* setChapters(chs.map((c) => ({ id: c.id, title: c.title })))
ReloadGetChapterMetas(ok) ==
  /\ admin.pc = "getChapterMetas"
  /\ LET chs == getChapterMetasOf(chaptersMetaCol, chaptersCol)
     IN  Ends(IF ok
              THEN [admin EXCEPT
                      !.chapters = [k \in DOMAIN chs |->
                                      [id |-> chs[k].id,
                                       title |-> chs[k].title]]]
              ELSE admin,
              ~ok, "getChapterMetas")
  /\ UNCHANGED <<clock, readerVars, storeVars, importInfo, read, listener,
                 text, other>>

(***************************************************************************)
(* Specification of the Admin page: one page, the only writer of the store *)
(***************************************************************************)
NextAdmin ==
  \/ useEffectReloadAll
  \/ \E l \in DOMAIN FileLists : handleFiles(l)
  \/ \E now \in StoreTimes : ReadDocxSettles(now)
  \/ onDeleteAll
  \/ \E id \in Deletions : onDeleteOne(id)
  \/ \E ok \in BOOLEAN : Resumes(BatchCommit(ok))
  \/ \E c \in WriteTargets, ok \in BOOLEAN, now \in StoreTimes :
       Resumes(DeleteDoc(c, ok, now))
  \/ \E ok \in BOOLEAN : Resumes(BumpStory(ok))
  \/ \E ok \in BOOLEAN, now \in StoreTimes :
       Resumes(DeletePagedGetDocs(ok, now))
  \/ \E ok \in BOOLEAN : Resumes(DeletePagedCommit(ok))
  \/ \E ok \in BOOLEAN : ReloadGetStory(ok)
  \/ \E ok \in BOOLEAN : ReloadGetChapterMetas(ok)

SpecAdmin == StoreInit /\ [][NextAdmin]_vars

(***************************************************************************)
(* Claims about the Admin page                                             *)
(***************************************************************************)
\* handleFiles is past its loop and no failure ended it
ImportFinished ==
  /\ admin.op = "handleFiles"
  /\ admin.pc \in {"getStory", "getChapterMetas", "idle"}
  /\ admin.idx > Len(admin.files)
  /\ admin.failed = ""

\* the chapters of file j of the list are in both collections
FilePersisted(j) ==
  \A ch \in {Imports[admin.files[j].chs][n] :
               n \in DOMAIN Imports[admin.files[j].chs]} :
     /\ ch.id \in DOMAIN chaptersCol
     /\ ch.id \in DOMAIN chaptersMetaCol

\* C11: when a document of the import yields two or more chapters with the
\* same id the import is not aborted, the chapters of that document are
\* persisted, and once the import of the file list has finished the Admin
\* message is the duplicate-chapter warning
C11_DuplicateWarningShown ==
  (ImportFinished /\ admin.warned # {}) =>
     /\ \A j \in admin.warned : FilePersisted(j)
     /\ msg.kind = "warning"

(***************************************************************************)
(* Claims about deleteAllChapters and the reads                            *)
(***************************************************************************)
IsDeleteAll == call.op = "deleteAllChapters"

\* the requests of the call that were applied are page deletes followed by
\* one write of the story, the last request of the call
StampedOnceAtEnd ==
  /\ commits # <<>>
  /\ \A n \in DOMAIN commits : commits[n].bump <=> n = Len(commits)
  /\ \A n \in DOMAIN commits : commits[n].ok

\* C12: deleteAllChapters, the only writer, terminates; every page it
\* deletes holds at most 500 documents; the content collection is emptied
\* before the metadata collection is read; when it completes both
\* collections are empty, getChapterMetas returns the empty list and the
\* story's updatedAt was written exactly once, after all the deletes
C12_DeleteAllTerminates ==
  /\ [](IsDeleteAll =>
          /\ \A n \in DOMAIN commits : commits[n].ops <= PageLimit
          /\ call.col = "chaptersMeta" => DOMAIN chaptersCol = {}
          /\ call.pc = "resolved" =>
               /\ DOMAIN chaptersCol = {}
               /\ DOMAIN chaptersMetaCol = {}
               /\ getChapterMetasOf(chaptersMetaCol, chaptersCol) = <<>>
               /\ StampedOnceAtEnd
               /\ storyDoc.updatedAt = call.now)
  /\ (IsDeleteAll /\ ~Idle) ~> (IsDeleteAll /\ Idle)

\* more documents than one page were deleted: two pages of 500 from each
\* collection, and the call completed
C12_Witness ==
  /\ IsDeleteAll
  /\ call.pc = "resolved"
  /\ Len(commits) = 5
  /\ commits[1].ops = PageLimit
  /\ commits[2].ops = PageLimit
  /\ DOMAIN chaptersMetaCol = {}

(***************************************************************************)
(* The reads as calls (db.ts 93-158, 185-251, 291-318): a request is       *)
(* answered with what the store holds when it is served, or is rejected;   *)
(* writes of other calls may come between the requests of one read.        *)
(***************************************************************************)
\* a story whose chapters 3 and 10 are in the legacy schema: one document
\* each, with num, and no metadata collection
LegacyStore ==
  [storyDoc |-> [title |-> "story", updatedAt |-> InitClock],
   chapters |->
     (String(3) :> [num |-> 3, title |-> <<"old title", 3>>,
                    content |-> <<"old content", 3>>,
                    updatedAt |-> InitClock])
     @@ (String(10) :> [num |-> 10, title |-> <<"old title", 10>>,
                        content |-> <<"old content", 10>>,
                        updatedAt |-> InitClock]),
   chaptersMeta |-> <<>>,
   lastChapterWrite |-> InitClock]

\* no story document, and no chapter
NoStoryStore ==
  [storyDoc |-> <<>>, chapters |-> <<>>, chaptersMeta |-> <<>>,
   lastChapterWrite |-> 0]

ReadStores == Stores \cup {LegacyStore, NoStoryStore}

ReadsInit ==
  /\ clock = InitClock
  /\ ReaderClosed
  /\ \E st \in ReadStores :
       /\ storyDoc = st.storyDoc
       /\ chaptersCol = st.chapters
       /\ chaptersMetaCol = st.chaptersMeta
       /\ lastChapterWrite = st.lastChapterWrite
  /\ call = NoCall
  /\ commits = <<>>
  /\ history = <<>>
  /\ before = [chapters |-> chaptersCol, chaptersMeta |-> chaptersMetaCol]
  /\ failures = MaxFailures
  /\ ClientsIdle

\* no read is in progress
ReadIdle == read.pc \in {"idle", "done"}

\* the read returns or throws
Returns(r, result) == [r EXCEPT !.pc = "done", !.result = result]

Thrown(what) == [kind |-> "error", what |-> what]

\* getChapterMetas(storyId), to its first await getDocs
getChapterMetas ==
  /\ ReadIdle
  /\ read' = [NoRead EXCEPT !.op = "getChapterMetas", !.pc = "metaQuery"]
  /\ UNCHANGED <<clock, readerVars, storeVars, listener, admin, msg,
                 importInfo, busy, text, other>>

\* await getDocs(metaQ) settles: a list that is not empty is returned, an
\* empty one is followed by the query on the legacy collection
MetaQueryResponds(ok) ==
  /\ read.op = "getChapterMetas"
  /\ read.pc = "metaQuery"
  /\ read' =
       IF ~ok THEN Returns(read, Thrown("getDocs"))
       ELSE LET r == [read EXCEPT
                        !.touched = IF MetasOf(chaptersMetaCol) = <<>> THEN @
                                    ELSE @ \cup {"chaptersMeta"}]
            IN  IF MetasOf(chaptersMetaCol) # <<>>
                THEN Returns(r, [kind |-> "list",
                                 list |-> MetasOf(chaptersMetaCol)])
                ELSE [r EXCEPT !.pc = "legacyQuery"]
  /\ UNCHANGED <<clock, readerVars, storeVars, listener, admin, msg,
                 importInfo, busy, text, other>>

\* await getDocs(legacyQ) settles: the documents of the content collection
\* that have a num are sent, and mapped to the list returned
LegacyQueryResponds(ok) ==
  /\ read.op = "getChapterMetas"
  /\ read.pc = "legacyQuery"
  /\ read' =
       IF ~ok THEN Returns(read, Thrown("getDocs"))
       ELSE Returns([read EXCEPT
                       !.touched = IF MetasOf(chaptersCol) = <<>> THEN @
                                   ELSE @ \cup {"chapters"}],
                    [kind |-> "list", list |-> MetasOf(chaptersCol)])
  /\ UNCHANGED <<clock, readerVars, storeVars, listener, admin, msg,
                 importInfo, busy, text, other>>

\* the ids getChapter is called with
ReadIds == Deletions \cup {String(2)}

\* getDoc(ref): the snapshot of document id of collection col
SnapOf(col, id) ==
  IF id \in DOMAIN col THEN [exists |-> TRUE, data |-> col[id]] ELSE NoSnap

\* what getChapter returns for the two snapshots: null when neither
\* exists, otherwise title and updatedAt of the metadata, else of the
\* content document, else "" and 0, and the content, else ""
\* (faulty variant: null when either is missing)
getChapterOfEither(id, contentSnap, metaSnap) ==
  IF ~contentSnap.exists \/ ~metaSnap.exists THEN [kind |-> "null"]
  ELSE [kind |-> "chapter", id |-> id,
        title |-> FieldOr(metaSnap.data, "title",
                          FieldOr(contentSnap.data, "title", EmptyString)),
        content |-> FieldOr(contentSnap.data, "content", EmptyString),
        updatedAt |-> FieldOr(metaSnap.data, "updatedAt",
                              FieldOr(contentSnap.data, "updatedAt", 0))]
getChapterOf(id, contentSnap, metaSnap) ==
  IF ~contentSnap.exists /\ ~metaSnap.exists THEN [kind |-> "null"]
  ELSE [kind |-> "chapter", id |-> id,
        title |-> FieldOr(metaSnap.data, "title",
                          FieldOr(contentSnap.data, "title", EmptyString)),
        content |-> FieldOr(contentSnap.data, "content", EmptyString),
        updatedAt |-> FieldOr(metaSnap.data, "updatedAt",
                              FieldOr(contentSnap.data, "updatedAt", 0))]

\* getChapter(storyId, id), to its await of Promise.all
getChapter(id) ==
  /\ ReadIdle
  /\ read' = [NoRead EXCEPT !.op = "getChapter", !.pc = "getDoc",
                            !.arg = id, !.inflight = WriteTargets]
  /\ UNCHANGED <<clock, readerVars, storeVars, listener, admin, msg,
                 importInfo, busy, text, other>>

\* one of the two getDoc of getChapter settles: a rejection rejects the
\* Promise.all, and when both snapshots are there the result is made
GetChapterGetDoc(c, ok) ==
  /\ read.op = "getChapter"
  /\ read.pc = "getDoc"
  /\ c \in read.inflight
  /\ read' =
       IF ~ok THEN Returns([read EXCEPT !.inflight = @ \ {c},
                                        !.errors = Append(@, "rejected")],
                           Thrown("getDoc"))
       ELSE LET r == [read EXCEPT !.inflight = @ \ {c},
                                  !.snaps[c] = SnapOf(ColOf(c), read.arg)]
            IN  IF r.inflight # {} THEN r
                ELSE Returns(r, getChapterOf(read.arg, r.snaps.chapters,
                                             r.snaps.chaptersMeta))
  /\ UNCHANGED <<clock, readerVars, storeVars, listener, admin, msg,
                 importInfo, busy, text, other>>

\* getStory: what follows an attempt that ended with ok or failed: a
\* failed first attempt is followed by the retry, anything else ends the
\* call (faulty variant: no retry)
AfterAttemptNoRetry(attempts, ok) == "done"
AfterAttempt(attempts, ok) ==
  IF ~ok /\ attempts = 1 THEN "retry" ELSE "done"

\* getStory: the error thrown after the failed attempts errors, the
\* retryError of the last one
Raised(errors) ==
  [kind |-> "error", what |-> errors[Len(errors)], attempt |-> Len(errors)]

\* getStory(storyId), to its await of Promise.race
getStory ==
  /\ ReadIdle
  /\ read' = [NoRead EXCEPT !.op = "getStory", !.pc = "first",
                            !.attempts = 1]
  /\ UNCHANGED <<clock, readerVars, storeVars, listener, admin, msg,
                 importInfo, busy, text, other>>

\* an attempt of getStory ended, with the story document (ok) or with the
\* failure what
Attempted(ok, what) ==
  LET errors == IF ok THEN read.errors ELSE Append(read.errors, what)
      next == AfterAttempt(read.attempts, ok)
  IN  IF next = "retry"
      THEN [read EXCEPT !.pc = "retry", !.attempts = @ + 1,
                        !.errors = errors, !.hung = FALSE]
      ELSE Returns([read EXCEPT !.errors = errors],
                   IF ok THEN StoryOf(storyDoc) ELSE Raised(errors))

\* the getDoc of the attempt in progress is one the store never answers
GetStoryGetDocLost ==
  /\ read.op = "getStory"
  /\ read.pc \in {"first", "retry"}
  /\ ~read.hung
  /\ read' = [read EXCEPT !.hung = TRUE]
  /\ UNCHANGED <<clock, readerVars, storeVars, listener, admin, msg,
                 importInfo, busy, text, other>>

\* the getDoc of the attempt in progress settles
GetStoryGetDoc(ok) ==
  /\ read.op = "getStory"
  /\ read.pc \in {"first", "retry"}
  /\ ~read.hung
  /\ read' = Attempted(ok, "rejected")
  /\ UNCHANGED <<clock, readerVars, storeVars, listener, admin, msg,
                 importInfo, busy, text, other>>

\* the 10 s timer of the first attempt fires before its getDoc settled
GetStoryTimeout ==
  /\ read.op = "getStory"
  /\ read.pc = "first"
  /\ read' = Attempted(FALSE, "timeout")
  /\ UNCHANGED <<clock, readerVars, storeVars, listener, admin, msg,
                 importInfo, busy, text, other>>

(***************************************************************************)
(* listenChapterMetas (db.ts 291-318)                                      *)
(***************************************************************************)
\* sequence q without its element at position i
Without(q, i) == SubSeq(q, 1, i - 1) \o SubSeq(q, i + 1, Len(q))

\* listenChapterMetas(storyId, cb): onSnapshot registers the listener
listenChapterMetas ==
  /\ ~listener.subscribed
  /\ ~listener.unsubscribed
  /\ listener' = [listener EXCEPT !.subscribed = TRUE]
  /\ UNCHANGED <<clock, readerVars, storeVars, read, admin, msg, importInfo,
                 busy, text, other>>

\* the store sends a snapshot of the query, the first one or one that
\* differs from the last, and the listener's function handles it: a list
\* that is not empty is passed to cb, an empty one starts getChapterMetas
Snapshot ==
  /\ listener.subscribed
  /\ ~listener.initial \/ listener.seen # MetasOf(chaptersMetaCol)
  /\ LET chs == MetasOf(chaptersMetaCol)
     IN  listener' =
           IF chs # <<>>
           THEN [listener EXCEPT !.initial = TRUE, !.seen = chs,
                                 !.delivered = Append(@, chs)]
           ELSE [listener EXCEPT !.initial = TRUE, !.seen = chs,
                                 !.fallbacks = Append(@, "metaQuery")]
  /\ UNCHANGED <<clock, readerVars, storeVars, read, admin, msg, importInfo,
                 busy, text, other>>

\* the caller invokes the handle listenChapterMetas returned: the store
\* sends the listener's function no further snapshot
Unsubscribe ==
  /\ listener.subscribed
  /\ listener' = [listener EXCEPT !.subscribed = FALSE, !.unsubscribed = TRUE]
  /\ UNCHANGED <<clock, readerVars, storeVars, read, admin, msg, importInfo,
                 busy, text, other>>

\* the getChapterMetas call i of the listener: await getDocs(metaQ)
\* settles; a list that is not empty is returned and passed to cb, a
\* rejection leaves the listener's function with no call of cb
FallbackMetaQuery(i, ok) ==
  /\ i \in DOMAIN listener.fallbacks
  /\ listener.fallbacks[i] = "metaQuery"
  /\ listener' =
       IF ~ok THEN [listener EXCEPT !.fallbacks = Without(@, i),
                                   !.rejected = TRUE]
       ELSE IF MetasOf(chaptersMetaCol) # <<>>
       THEN [listener EXCEPT
               !.fallbacks = Without(@, i),
               !.delivered = Append(@, MetasOf(chaptersMetaCol))]
       ELSE [listener EXCEPT !.fallbacks[i] = "legacyQuery"]
  /\ UNCHANGED <<clock, readerVars, storeVars, read, admin, msg, importInfo,
                 busy, text, other>>

\* the getChapterMetas call i of the listener: await getDocs(legacyQ)
\* settles, and cb(legacy)
FallbackLegacyQuery(i, ok) ==
  /\ i \in DOMAIN listener.fallbacks
  /\ listener.fallbacks[i] = "legacyQuery"
  /\ listener' =
       IF ~ok THEN [listener EXCEPT !.fallbacks = Without(@, i),
                                   !.rejected = TRUE]
       ELSE [listener EXCEPT
               !.fallbacks = Without(@, i),
               !.delivered = Append(@, MetasOf(chaptersCol))]
  /\ UNCHANGED <<clock, readerVars, storeVars, read, admin, msg, importInfo,
                 busy, text, other>>

(***************************************************************************)
(* Specifications of the reads: a writer that saves and deletes single     *)
(* chapters, with one reader, or with one listener                         *)
(***************************************************************************)
\* the most getChapterMetas calls of the listener in progress at a time
MaxFallbacks == 2

NextWriter ==
  \/ \E ch \in Edits, now \in StoreTimes :
       upsertChapter(ch, now) /\ UNCHANGED clientVars
  \/ \E c \in WriteTargets, ok \in BOOLEAN :
       UpsertSetDoc(c, ok) /\ UNCHANGED clientVars
  \/ \E ok \in BOOLEAN : BumpStory(ok) /\ UNCHANGED clientVars
  \/ \E id \in Deletions : deleteChapter(id) /\ UNCHANGED clientVars
  \/ \E c \in WriteTargets, ok \in BOOLEAN, now \in StoreTimes :
       DeleteDoc(c, ok, now) /\ UNCHANGED clientVars

NextReads ==
  \/ getChapterMetas
  \/ \E ok \in BOOLEAN : MetaQueryResponds(ok)
  \/ \E ok \in BOOLEAN : LegacyQueryResponds(ok)
  \/ \E id \in ReadIds : getChapter(id)
  \/ \E c \in WriteTargets, ok \in BOOLEAN : GetChapterGetDoc(c, ok)
  \/ getStory
  \/ \E ok \in BOOLEAN : GetStoryGetDoc(ok)
  \/ GetStoryGetDocLost
  \/ GetStoryTimeout
  \/ NextWriter

SpecReads == ReadsInit /\ [][NextReads]_vars

\* the timer of getStory fires 10 s after it was set, and the store
\* answers every getDoc it has not lost
SpecReadsFair ==
  /\ SpecReads
  /\ WF_vars(GetStoryTimeout)
  /\ WF_vars(\E ok \in BOOLEAN : GetStoryGetDoc(ok))

NextListen ==
  \/ listenChapterMetas
  \/ Snapshot
  \/ Unsubscribe
  \/ \E i \in 1..MaxFallbacks, ok \in BOOLEAN : FallbackMetaQuery(i, ok)
  \/ \E i \in 1..MaxFallbacks, ok \in BOOLEAN : FallbackLegacyQuery(i, ok)
  \/ NextWriter

SpecListen == ReadsInit /\ [][NextListen]_vars

(***************************************************************************)
(* Claims about the reads                                                  *)
(***************************************************************************)
\* the read of operation op returns a value of kind kind in this step
ReturnsNow(op, kind) ==
  /\ read.op = op
  /\ read.pc # "done"
  /\ read'.pc = "done"
  /\ read'.result.kind = kind

\* the ids of the chapters of the story, in either collection
StoryChapterIds == DOMAIN chaptersCol \cup DOMAIN chaptersMetaCol

\* C13: the list getChapterMetas returns holds all the chapters of the
\* story, in ascending order of num, with no content field, and the call
\* was sent no document of the content-bearing chapters collection
C13_MetasOnlyFromMeta ==
  [][ReturnsNow("getChapterMetas", "list") =>
       LET list == read'.result.list
       IN  /\ {list[k].id : k \in DOMAIN list} = StoryChapterIds
           /\ \A j, k \in DOMAIN list : j < k => list[j].num <= list[k].num
           /\ \A k \in DOMAIN list : "content" \notin DOMAIN list[k]
           /\ "chapters" \notin read'.touched]_vars

\* C14: getChapter returns null exactly when neither the content document
\* nor the metadata document of the id exists in the store when it is
\* read, and a chapter record of that id otherwise; it throws only when a
\* getDoc was rejected, never because the id is missing
C14_NullIffNeitherExists ==
  [][(read.op = "getChapter" /\ read.pc = "getDoc" /\ read' # read) =>
       LET r == read'
           neither == /\ ~r.snaps.chapters.exists
                      /\ ~r.snaps.chaptersMeta.exists
       IN  /\ r.result.kind = "error" <=> r.errors # <<>>
           /\ \A c \in read.inflight \ r.inflight :
                r.errors = <<>> =>
                  (r.snaps[c].exists <=> read.arg \in DOMAIN ColOf(c))
           /\ (r.pc = "done" /\ r.errors = <<>>) =>
                /\ r.result.kind = "null" <=> neither
                /\ ~neither => /\ r.result.kind = "chapter"
                               /\ r.result.id = read.arg]_vars

\* getChapter returned null for an id that is in neither collection
C14_Witness ==
  /\ read.op = "getChapter"
  /\ read.pc = "done"
  /\ read.result.kind = "null"
  /\ read.arg \notin DOMAIN chaptersCol \cup DOMAIN chaptersMetaCol
  /\ DOMAIN chaptersCol # {}

\* the changes have stopped: no write is in progress and none was
\* rejected, the listener handled the snapshot of the collection as it is
\* now, and every getChapterMetas it started has returned
Quiet ==
  /\ listener.subscribed
  /\ listener.initial
  /\ listener.seen = MetasOf(chaptersMetaCol)
  /\ listener.fallbacks = <<>>
  /\ ~listener.rejected
  /\ Idle
  /\ failures = MaxFailures

\* every chapter of the story is in the split schema: a metadata document
\* and a content document
SplitSchema == DOMAIN chaptersCol = DOMAIN chaptersMetaCol

\* C15: the callback of listenChapterMetas is invoked with lists in
\* ascending order of num, in the order of the changes, so that once the
\* changes have stopped the last list it was invoked with is the current
\* content of the metadata collection (stated for a story with no chapter
\* left in the legacy schema)
C15_LastDeliveredIsCurrent ==
  (Quiet /\ SplitSchema) =>
    /\ listener.delivered # <<>>
    /\ \A n \in DOMAIN listener.delivered :
         \A j, k \in DOMAIN listener.delivered[n] :
            j < k => listener.delivered[n][j].num
                       <= listener.delivered[n][k].num
    /\ listener.delivered[Len(listener.delivered)]
         = MetasOf(chaptersMetaCol)

\* C16: getStory makes at most two read attempts, the second only after the
\* first was rejected or timed out; it returns what its last attempt read
\* (null when there is no story document), with no retry after an attempt
\* that was answered; it throws only when both attempts failed, and then
\* the error of the second
C16_RetriesOnce ==
  (read.op = "getStory") =>
    /\ read.attempts \in {1, 2}
    /\ read.attempts = 2 =>
         /\ Len(read.errors) >= 1
         /\ read.errors[1] \in {"rejected", "timeout"}
    /\ read.pc # "done" => read.attempts = Len(read.errors) + 1
    /\ read.pc = "done" =>
         /\ read.result.kind \in {"story", "null", "error"}
         /\ read.result.kind = "error" <=> Len(read.errors) = 2
         /\ read.result.kind = "error" =>
              read.result = [kind |-> "error", what |-> read.errors[2],
                             attempt |-> 2]
         /\ read.result.kind # "error" =>
              read.attempts = Len(read.errors) + 1

\* both attempts failed, the first by the timer, and the error of the
\* second was thrown
C16_Witness ==
  /\ read.op = "getStory"
  /\ read.pc = "done"
  /\ read.errors = <<"timeout", "rejected">>
  /\ read.result = [kind |-> "error", what |-> "rejected", attempt |-> 2]

\* C17: every call of getStory completes, with a story, with null or with
\* an error, also when a getDoc it issued is never answered
C17_GetStoryCompletes ==
  (read.op = "getStory" /\ read.pc # "done")
     ~> (read.op = "getStory" /\ read.pc = "done")

\* the store operations the Admin handlers start
AdminStoreOps == {"batchUpsertChapters", "deleteAllChapters", "deleteChapter"}

\* C18: when the store operation a handler of the Admin page started
\* (import, delete-all, delete-one) failed and the handler has ended, the
\* Admin message is an error text that carries the failure
C18_FailureShown ==
  (admin.pc = "idle" /\ admin.failed \in AdminStoreOps) =>
     /\ msg.kind = "importError"
     /\ msg.detail = <<admin.failed>>

\* str ends with suffix
EndsWith(str, suffix) ==
  /\ Len(str) >= Len(suffix)
  /\ SubSeq(str, Len(str) - Len(suffix) + 1, Len(str)) = suffix

\* the files of the list whose name has the extension docx and whose text
\* is not empty
DocxWithText ==
  {j \in DOMAIN admin.files :
     /\ EndsWith(toLowerCase(admin.files[j].name), Docx)
     /\ admin.files[j].content = "text"}

\* C19: in an import of several files that no failure ended, the files
\* whose extension is not docx (doc included) are passed over and are not
\* counted: the imported-files count is the number of docx files with a
\* text, and the chapters of each of these are persisted
C19_OnlyDocxImported ==
  ImportFinished =>
     /\ importInfo.present
     /\ importInfo.files = Cardinality(DocxWithText)
     /\ \A j \in DocxWithText : FilePersisted(j)

(***************************************************************************)
(* normalizeText (router.tsx 462-469).  A string is the sequence of its    *)
(* characters; the characters that matter to the function are the          *)
(* carriage return, the line feed, the space, the tab and the no-break     *)
(* space, and "a" stands for any other character.                          *)
(***************************************************************************)
CR == "\r"
LF == "\n"
SP == " "
TAB == "\t"
NBSP == "nbsp"
Chars == {CR, LF, SP, TAB, NBSP, "a"}

\* the longest input, and the most applications of the function to it
MaxLen == 5
MaxPasses == 2

\* the characters of s at the positions keep, in order
RECURSIVE Pick(_, _, _)
Pick(s, keep, i) ==
  IF i > Len(s) THEN <<>>
  ELSE (IF i \in keep THEN <<s[i]>> ELSE <<>>) \o Pick(s, keep, i + 1)

\* .replace(/\r\n/g, "\n"): every CR LF pair, left to right, becomes LF
RECURSIVE ReplaceCRLF(_)
ReplaceCRLF(s) ==
  IF s = <<>> THEN <<>>
  ELSE IF Len(s) >= 2 /\ s[1] = CR /\ s[2] = LF
  THEN <<LF>> \o ReplaceCRLF(SubSeq(s, 3, Len(s)))
  ELSE <<s[1]>> \o ReplaceCRLF(Tail(s))

\* .replace(/ /g, " ")
ReplaceNbsp(s) == [i \in DOMAIN s |-> IF s[i] = NBSP THEN SP ELSE s[i]]

\* .replace(/[ \t]+\n/g, "\n"): the spaces and tabs of a run that ends at a
\* LF are removed
DropBlanksBeforeLF(s) ==
  LET blank(i) == s[i] \in {SP, TAB}
      endsAtLF(i) ==
        \E j \in (i + 1)..Len(s) :
           /\ s[j] = LF
           /\ \A k \in i..(j - 1) : blank(k)
  IN  Pick(s, {i \in DOMAIN s : ~(blank(i) /\ endsAtLF(i))}, 1)

\* .replace(/\n{3,}/g, "\n\n"): of a run of three or more LF the first two
\* are kept
SqueezeLF(s) ==
  Pick(s, {i \in DOMAIN s :
             ~(i >= 3 /\ s[i] = LF /\ s[i - 1] = LF /\ s[i - 2] = LF)}, 1)

\* String.prototype.trim: white space and line terminators are removed at
\* both ends
WhiteSpace == {CR, LF, SP, TAB, NBSP}

trim(s) ==
  LET inner == {i \in DOMAIN s : s[i] \notin WhiteSpace}
  IN  IF inner = {} THEN <<>>
      ELSE SubSeq(s, CHOOSE i \in inner : \A j \in inner : i <= j,
                     CHOOSE i \in inner : \A j \in inner : j <= i)

normalizeText(s) ==
  trim(SqueezeLF(DropBlanksBeforeLF(ReplaceNbsp(ReplaceCRLF(s)))))

\* the strings of length n over Chars
RECURSIVE StringsOf(_)
StringsOf(n) ==
  IF n = 0 THEN {<<>>}
  ELSE {<<c>> \o t : c \in Chars, t \in StringsOf(n - 1)}

NormalizeInit ==
  /\ clock = InitClock
  /\ ReaderClosed
  /\ StoreUnused
  /\ read = NoRead
  /\ listener = NoListener
  /\ admin = NoAdmin
  /\ msg = Msg("", <<>>)
  /\ importInfo = NoImportInfo
  /\ busy = FALSE
  /\ other = NoCall
  /\ \E n \in 0..MaxLen : \E x \in StringsOf(n) : text = [NoText EXCEPT !.s = x]

\* normalizeText is applied to the string
Normalize ==
  /\ text.passes < MaxPasses
  /\ text' = [text EXCEPT !.s = normalizeText(text.s), !.passes = @ + 1]
  /\ UNCHANGED <<clock, readerVars, storeVars, read, listener, admin, msg,
                 importInfo, busy, other>>

SpecNormalize == NormalizeInit /\ [][Normalize]_vars

\* C20: normalizeText is idempotent: applied to a string it returned, it
\* returns that string (inputs over CR, LF, space, tab, no-break space and
\* letters)
C20_NormalizeIdempotent ==
  text.passes >= 1 => normalizeText(text.s) = text.s

(***************************************************************************)
(* splitChapters (router.tsx 390-459).  A string is the sequence of its    *)
(* characters.  KW stands for the keyword of a heading (chapter, chuong or *)
(* chương, in any letter case), which the function only compares with its  *)
(* pattern; "Chapter" is the word the function writes in a title.          *)
(***************************************************************************)
KW == "chapter"

\* [:.\-–—], the separator that may follow the number of a heading
Separators == {":", ".", "-"}

\* [\s:._\-–—], what cleanTitle removes at both ends
TitleNoise == WhiteSpace \cup {":", ".", "_", "-"}

\* \d{1,5}
MaxDigits == 5

\* the most lines of an input text
MaxLines == 4

\* s.split("\n")
RECURSIVE SplitLF(_)
SplitLF(s) ==
  LET nl == {i \in DOMAIN s : s[i] = LF}
  IN  IF nl = {} THEN <<s>>
      ELSE LET k == CHOOSE i \in nl : \A j \in nl : i <= j
           IN  <<SubSeq(s, 1, k - 1)>> \o SplitLF(SubSeq(s, k + 1, Len(s)))

\* lines.join("\n")
RECURSIVE JoinLF(_)
JoinLF(ls) ==
  IF ls = <<>> THEN <<>>
  ELSE IF Len(ls) = 1 THEN ls[1]
  ELSE ls[1] \o <<LF>> \o JoinLF(Tail(ls))

\* \s*: the first position from i on that holds no white space
SkipWs(ln, i) ==
  CHOOSE j \in i..(Len(ln) + 1) :
     /\ j = Len(ln) + 1 \/ ln[j] \notin WhiteSpace
     /\ \A k \in i..(j - 1) : ln[k] \in WhiteSpace

\* ln.match(headingRe): whether the line is a heading, its digits (m[2])
\* and what follows them (m[3]).  The pattern is
\*   ^\s*(keyword)\s+(\d{1,5})\s*(?:[:.\-–—])?\s*(.*)\s*$
\* and "." matches no line terminator.
headingRe(ln) ==
  LET n == Len(ln)
      k == SkipWs(ln, 1)
      d == SkipWs(ln, k + 1)
      nd == CHOOSE c \in 0..MaxDigits :
              /\ \A j \in d..(d + c - 1) : j <= n /\ IsDigit(ln[j])
              /\ c = MaxDigits \/ d + c > n \/ ~IsDigit(ln[d + c])
      e == d + nd
      p == SkipWs(ln, e)
      q == IF p <= n /\ ln[p] \in Separators THEN p + 1 ELSE p
      r == SkipWs(ln, q)
      rest == SubSeq(ln, r, n)
      ends == {j \in DOMAIN rest : rest[j] \in {CR, LF}}
      cut == IF ends = {} THEN Len(rest) + 1
             ELSE CHOOSE j \in ends : \A x \in ends : j <= x
      ok == /\ k <= n
            /\ ln[k] = KW
            /\ d > k + 1
            /\ nd >= 1
            /\ \A j \in cut..Len(rest) : rest[j] \in WhiteSpace
  IN  IF ok THEN [ok |-> TRUE, digits |-> SubSeq(ln, d, e - 1),
                  title |-> SubSeq(rest, 1, cut - 1)]
      ELSE [ok |-> FALSE, digits |-> <<>>, title |-> <<>>]

\* .replace(/^[...]+/g, "")
StripStart(s, set) ==
  LET keep == {i \in DOMAIN s : s[i] \notin set}
  IN  IF keep = {} THEN <<>>
      ELSE SubSeq(s, CHOOSE i \in keep : \A j \in keep : i <= j, Len(s))

\* .replace(/[...]+$/g, "")
StripEnd(s, set) ==
  LET keep == {i \in DOMAIN s : s[i] \notin set}
  IN  IF keep = {} THEN <<>>
      ELSE SubSeq(s, 1, CHOOSE i \in keep : \A j \in keep : j <= i)

cleanTitle(s) == trim(StripEnd(StripStart(trim(s), TitleNoise), TitleNoise))

\* the title of the heading at line i: the one on the heading line, else
\* the next line when it is not empty and not a heading, else none
TitleOf(lines, i) ==
  LET inline == cleanTitle(headingRe(lines[i]).title)
      next == IF i + 1 <= Len(lines) THEN lines[i + 1] ELSE <<>>
      nextTrim == cleanTitle(next)
  IN  IF inline # <<>> THEN inline
      ELSE IF nextTrim # <<>> /\ ~headingRe(nextTrim).ok THEN nextTrim
      ELSE <<>>

\* the first loop: the headings of the lines from line i on (lines are
\* numbered from 1 here, from 0 in the code)
RECURSIVE ScanHeadingsButLast(_, _)
ScanHeadingsButLast(lines, i) ==
  IF i >= Len(lines) THEN <<>>
  ELSE (IF headingRe(lines[i]).ok
        THEN <<[lineIndex |-> i,
                chapNo |-> String(Number(headingRe(lines[i]).digits)),
                title |-> TitleOf(lines, i)]>>
        ELSE <<>>) \o ScanHeadingsButLast(lines, i + 1)
RECURSIVE ScanHeadings(_, _)
ScanHeadings(lines, i) ==
  IF i > Len(lines) THEN <<>>
  ELSE (IF headingRe(lines[i]).ok
        THEN <<[lineIndex |-> i,
                chapNo |-> String(Number(headingRe(lines[i]).digits)),
                title |-> TitleOf(lines, i)]>>
        ELSE <<>>) \o ScanHeadings(lines, i + 1)

\* `Chapter ${id}: ${title}` or `Chapter ${id}`
LabelOfAlwaysColon(id, title) ==
  <<"Chapter", " ">> \o id \o <<":", " ">> \o title
LabelOf(id, title) ==
  IF title # <<>> THEN <<"Chapter", " ">> \o id \o <<":", " ">> \o title
  ELSE <<"Chapter", " ">> \o id

\* the lines of the i-th block after the heading line, less the first one
\* when the heading has a title and that line, cleaned, is that title
ChunkLines(lines, headings, i) ==
  LET startLine == headings[i].lineIndex
      endLine == IF i + 1 <= Len(headings) THEN headings[i + 1].lineIndex
                 ELSE Len(lines) + 1
      chunkLines == SubSeq(lines, startLine + 1, endLine - 1)
      first == cleanTitle(chunkLines[1])
  IN  IF /\ headings[i].title # <<>>
         /\ chunkLines # <<>>
         /\ first # <<>>
         /\ first = headings[i].title
      THEN Tail(chunkLines)
      ELSE chunkLines

splitChapters(str) ==
  LET t == trim(ReplaceNbsp(ReplaceCRLF(str)))
      lines == SplitLF(t)
      headings == ScanHeadings(lines, 1)
  IN  IF headings = <<>>
      THEN <<[id |-> <<"1">>, title |-> <<"Chapter", " ", "1">>,
              content |-> t]>>
      ELSE [i \in DOMAIN headings |->
              [id |-> headings[i].chapNo,
               title |-> LabelOf(headings[i].chapNo, headings[i].title),
               content |-> trim(JoinLF(ChunkLines(lines, headings, i)))]]

\* the lines the input texts are made of: an empty line, lines of text,
\* headings with and without a title, with leading zeros and with the
\* number 0, and a line that is a heading only once cleaned
SampleLines ==
  { <<>>,
    <<"a">>,
    <<"b">>,
    <<" ", "a", " ">>,
    <<KW, " ", "1">>,
    <<KW, " ", "2", ":", " ", "a">>,
    <<KW, " ", "5">>,
    <<KW, " ", "0", "0", "7", ":", " ", "b">>,
    <<KW, " ", "0">>,
    <<"-", " ", KW, " ", "5">>,
    <<KW, "1">> }

\* the texts of n lines
RECURSIVE TextsOf(_)
TextsOf(n) ==
  IF n = 1 THEN SampleLines
  ELSE {ln \o <<LF>> \o t : ln \in SampleLines, t \in TextsOf(n - 1)}

SplitInit ==
  /\ clock = InitClock
  /\ ReaderClosed
  /\ StoreUnused
  /\ read = NoRead
  /\ listener = NoListener
  /\ admin = NoAdmin
  /\ msg = Msg("", <<>>)
  /\ importInfo = NoImportInfo
  /\ busy = FALSE
  /\ other = NoCall
  /\ \E n \in 1..MaxLines : \E x \in TextsOf(n) : text = [NoText EXCEPT !.s = x]

\* splitChapters is applied to the text
SplitChapters ==
  /\ text.passes = 0
  /\ text' = [text EXCEPT !.chapters = splitChapters(text.s), !.passes = 1]
  /\ UNCHANGED <<clock, readerVars, storeVars, read, listener, admin, msg,
                 importInfo, busy, other>>

SpecSplit == SplitInit /\ [][SplitChapters]_vars

(***************************************************************************)
(* Claims on splitChapters                                                 *)
(***************************************************************************)
\* the lines of the text given to splitChapters, and which of them are
\* heading lines
LinesOfText == SplitLF(trim(ReplaceNbsp(ReplaceCRLF(text.s))))

HeadingLines == {i \in DOMAIN LinesOfText : headingRe(LinesOfText[i]).ok}

\* the i-th heading line, counting from the top
NthHeading(i) ==
  CHOOSE h \in HeadingLines : Cardinality({x \in HeadingLines : x < h}) = i - 1

SplitDone == text.passes = 1

\* C21: splitChapters never returns an empty list: a text with no heading
\* line gives one chapter with id "1", title "Chapter 1" and the trimmed
\* text as content; a text with k >= 1 heading lines gives k chapters, one
\* per heading, in line order
C21_NeverEmpty ==
  SplitDone =>
    /\ text.chapters # <<>>
    /\ HeadingLines = {} =>
         text.chapters = <<[id |-> <<"1">>, title |-> <<"Chapter", " ", "1">>,
                            content |-> trim(text.s)]>>
    /\ HeadingLines # {} =>
         /\ Len(text.chapters) = Cardinality(HeadingLines)
         /\ \A i \in 1..Cardinality(HeadingLines) :
              i <= Len(text.chapters) =>
                ParseDigits(text.chapters[i].id)
                  = ParseDigits(headingRe(LinesOfText[NthHeading(i)]).digits)

C21_Witness ==
  /\ SplitDone
  /\ Cardinality(HeadingLines) = 3
  /\ Len(text.chapters) = 3
  /\ HeadingLines # {1, 2, 3}

\* C24: the id of a chapter is the digit run of its heading read as an
\* integer and written in decimal with no leading zero, and its title is
\* "Chapter {id}: {title}" when a title was found, else "Chapter {id}"
C24_IdCanonical ==
  (SplitDone /\ HeadingLines # {}) =>
    \A i \in 1..Cardinality(HeadingLines) :
      i <= Len(text.chapters) =>
        LET ch == text.chapters[i]
            m == headingRe(LinesOfText[NthHeading(i)])
            found == TitleOf(LinesOfText, NthHeading(i))
        IN  /\ ch.id # <<>>
            /\ \A k \in DOMAIN ch.id : IsDigit(ch.id[k])
            /\ Len(ch.id) > 1 => ch.id[1] # "0"
            /\ ParseDigits(ch.id) = ParseDigits(m.digits)
            /\ ch.title = IF found = <<>> THEN <<"Chapter", " ">> \o ch.id
                          ELSE <<"Chapter", " ">> \o ch.id \o <<":", " ">>
                                 \o found

\* "Chapter 007: b" gives id "7" and title "Chapter 7: b", and a heading
\* with no title gives "Chapter {id}"
C24_Witness ==
  /\ SplitDone
  /\ \E i \in DOMAIN text.chapters :
       /\ i <= Cardinality(HeadingLines)
       /\ headingRe(LinesOfText[NthHeading(i)]).digits = <<"0", "0", "7">>
       /\ text.chapters[i].id = <<"7">>
       /\ text.chapters[i].title = <<"Chapter", " ", "7", ":", " ", "b">>
  /\ \E i \in DOMAIN text.chapters :
       text.chapters[i].title = <<"Chapter", " ", "5">>

\* C25: every chapter splitChapters produces has an id that is the string
\* form of a positive integer
C25_IdPositive ==
  SplitDone =>
    \A i \in DOMAIN text.chapters :
      LET id == text.chapters[i].id
      IN  /\ id # <<>>
          /\ \A k \in DOMAIN id : IsDigit(id[k])
          /\ id[1] # "0"
          /\ ParseDigits(id) >= 1

\* the heading at line h borrows its title from the next line: it has no
\* title of its own and the next line, cleaned, is not empty and not a
\* heading
Borrows(h) ==
  /\ cleanTitle(headingRe(LinesOfText[h]).title) = <<>>
  /\ h + 1 <= Len(LinesOfText)
  /\ cleanTitle(LinesOfText[h + 1]) # <<>>
  /\ ~headingRe(cleanTitle(LinesOfText[h + 1])).ok

\* the lines strictly between the i-th heading line and the next one (the
\* end of the text for the last)
Between(i) ==
  SubSeq(LinesOfText, NthHeading(i) + 1,
         IF i < Cardinality(HeadingLines) THEN NthHeading(i + 1) - 1
         ELSE Len(LinesOfText))

\* C22: the content of the i-th chapter is made of the lines strictly
\* between the i-th heading line and the next heading line (the end of the
\* text for the last chapter), in order, less a line consumed as the title
C22_ContentBetweenHeadings ==
  (SplitDone /\ HeadingLines # {}) =>
    /\ Len(text.chapters) = Cardinality(HeadingLines)
    /\ \A i \in DOMAIN text.chapters :
         text.chapters[i].content =
           trim(JoinLF(IF Borrows(NthHeading(i)) THEN Tail(Between(i))
                       ELSE Between(i)))

\* C23: a heading with no title of its own followed by a line that is not
\* empty and not a heading takes that line as its title and the line is
\* left out of the content; in every other case the line after the heading
\* stays in the content
C23_TitleLineRemovedIffConsumed ==
  (SplitDone /\ HeadingLines # {}) =>
    \A i \in DOMAIN text.chapters :
      LET ch == text.chapters[i]
          h == NthHeading(i)
      IN  i <= Cardinality(HeadingLines) =>
            IF Borrows(h)
            THEN /\ ch.title = <<"Chapter", " ">> \o ch.id \o <<":", " ">>
                                  \o cleanTitle(LinesOfText[h + 1])
                 /\ SplitLF(ch.content) = SplitLF(trim(JoinLF(Tail(Between(i)))))
            ELSE SplitLF(ch.content) = SplitLF(trim(JoinLF(Between(i))))

\* a line that is not blank, and the lines of a sequence that are not
\* blank, each trimmed
NonBlank(ln) == trim(ln) # <<>>

Trimmed(lines) ==
  LET kept == SelectSeq(lines, NonBlank)
  IN  [k \in DOMAIN kept |-> trim(kept[k])]

\* the lines of the contents of the chapters from the i-th on
RECURSIVE ContentLines(_, _)
ContentLines(chs, i) ==
  IF i > Len(chs) THEN <<>>
  ELSE Trimmed(SplitLF(chs[i].content)) \o ContentLines(chs, i + 1)

\* the lines after the first heading line that are neither a heading line
\* nor a line a heading borrowed its title from, from line j on
RECURSIVE BodyLines(_)
BodyLines(j) ==
  IF j > Len(LinesOfText) THEN <<>>
  ELSE (IF j \notin HeadingLines /\ ~(j - 1 \in HeadingLines /\ Borrows(j - 1))
        THEN Trimmed(<<LinesOfText[j]>>)
        ELSE <<>>) \o BodyLines(j + 1)

\* C30: with at least one heading, the lines before the first heading line
\* are in no chapter (the result is that of the text without them), and
\* every line after it that is neither a heading line nor a line consumed
\* as a title is in the content of exactly one chapter
C30_PreambleDroppedRestKept ==
  (SplitDone /\ HeadingLines # {}) =>
    /\ text.chapters =
         splitChapters(JoinLF(SubSeq(LinesOfText, NthHeading(1),
                                     Len(LinesOfText))))
    /\ ContentLines(text.chapters, 1) = BodyLines(NthHeading(1))

(***************************************************************************)
(* Claim on the Reader's redirect to the last chapter                      *)
(***************************************************************************)
\* the commit in which the redirect effect navigates: the route had no
\* chapter id and gets one
Redirects == chapterIdParam = "" /\ chapterIdParam' # ""

\* C27: opened with no chapter id in the route and a cached progress record
\* with lastChapterId = c, the Reader redirects to chapter c once the story
\* has loaded, and until the target is computed the cached lastChapterId
\* stays c; with no cached progress the target is the first listed chapter,
\* else "1"
C27_RedirectsToCachedChapter ==
  [][chapterIdParam = "" =>
       IF Redirects
       THEN chapterIdParam' =
              IF lsProgress.present THEN lsProgress.lastChapterId
              ELSE IF chapters # <<>> THEN chapters[1]
              ELSE "1"
       ELSE lsProgress.present =>
              /\ lsProgress'.present
              /\ lsProgress'.lastChapterId = lsProgress.lastChapterId]_vars

\* C28: once the handle returned by listenChapterMetas has been invoked,
\* the callback is not invoked again, also when an empty snapshot had
\* started the fallback read before
C28_NoCallbackAfterUnsubscribe ==
  [][listener.unsubscribed => listener'.delivered = listener.delivered]_vars

(***************************************************************************)
(* Two sessions call the store adapter at the same time: the store serves  *)
(* one request at a time, of either session.  call is the operation of the *)
(* session whose request is served next, other that of the second session. *)
(* Every request succeeds.                                                 *)
(***************************************************************************)
\* a story with chapters 1 and 3 in the split schema
SplitStore ==
  [storyDoc |-> [title |-> "story", updatedAt |-> InitClock],
   chapters |->
     [id \in {String(1), String(3)} |->
        ContentData([id |-> id, title |-> <<"old title", 1>>,
                     content |-> <<"old content", 1>>], InitClock)],
   chaptersMeta |->
     [id \in {String(1), String(3)} |->
        MetaData([id |-> id, title |-> <<"old title", 1>>], InitClock)],
   lastChapterWrite |-> InitClock]

\* the imports of the two sessions: one chapter, and the import with a
\* repeated id
TwoImports == {1, 2}

TwoInit ==
  /\ clock = InitClock
  /\ ReaderClosed
  /\ \E st \in {EmptyStore, SplitStore} :
       /\ storyDoc = st.storyDoc
       /\ chaptersCol = st.chapters
       /\ chaptersMetaCol = st.chaptersMeta
       /\ lastChapterWrite = st.lastChapterWrite
  /\ call = NoCall
  /\ commits = <<>>
  /\ history = <<>>
  /\ before = [chapters |-> chaptersCol, chaptersMeta |-> chaptersMetaCol]
  /\ failures = MaxFailures
  /\ ClientsIdle

\* the store turns to the request of the other session
Switch ==
  /\ call.op # "none"
  /\ call' = other
  /\ other' = call
  /\ UNCHANGED <<clock, readerVars, storyDoc, chaptersCol, chaptersMetaCol,
                 commits, history, before, lastChapterWrite, failures, read,
                 listener, admin, msg, importInfo, busy, text>>

NextTwo ==
  \/ \E k \in TwoImports, now \in StoreTimes :
       batchUpsertChapters(k, now) /\ UNCHANGED clientVars
  \/ BatchCommit(TRUE) /\ UNCHANGED clientVars
  \/ \E ch \in Edits, now \in StoreTimes :
       upsertChapter(ch, now) /\ UNCHANGED clientVars
  \/ \E c \in WriteTargets : UpsertSetDoc(c, TRUE) /\ UNCHANGED clientVars
  \/ BumpStory(TRUE) /\ UNCHANGED clientVars
  \/ \E id \in Deletions : deleteChapter(id) /\ UNCHANGED clientVars
  \/ \E c \in WriteTargets, now \in StoreTimes :
       DeleteDoc(c, TRUE, now) /\ UNCHANGED clientVars
  \/ deleteAllChapters /\ UNCHANGED clientVars
  \/ \E now \in StoreTimes :
       DeletePagedGetDocs(TRUE, now) /\ UNCHANGED clientVars
  \/ DeletePagedCommit(TRUE) /\ UNCHANGED clientVars
  \/ Switch

SpecTwo == TwoInit /\ [][NextTwo]_vars

\* no operation of either session is in progress
BothIdle == Idle /\ other.pc \in {"idle", "resolved", "rejected"}

\* C29: when no store operation is in progress the content collection and
\* the metadata collection hold the same chapter ids, for any interleaving
\* of the requests of upsertChapter, batchUpsertChapters, deleteChapter and
\* deleteAllChapters calls that all succeed, from a story whose collections
\* agree
C29_CollectionsAgree ==
  BothIdle => DOMAIN chaptersCol = DOMAIN chaptersMetaCol

(***************************************************************************)
(* tableToBlockquote (router.tsx 471-507).  A node of the document is its  *)
(* tag ("text" for a text node), its value (the characters of a text node) *)
(* and its child nodes.                                                    *)
(***************************************************************************)
Txt(s) == [tag |-> "text", value |-> s, kids |-> <<>>]
El(tag, kids) == [tag |-> tag, value |-> <<>>, kids |-> kids]

\* the most rows of a table and cells of a row
MaxRows == 2
MaxCells == 2

\* nodeTextWithBreaks(node)
RECURSIVE nodeTextWithBreaks(_)
RECURSIVE KidsText(_, _)
KidsText(kids, i) ==
  IF i > Len(kids) THEN <<>>
  ELSE nodeTextWithBreaks(kids[i]) \o KidsText(kids, i + 1)

nodeTextWithBreaks(node) ==
  IF node.tag = "text" THEN node.value
  ELSE IF node.tag = "br" THEN <<LF>>
  ELSE IF node.tag \in {"p", "div", "li"}
  THEN StripEnd(KidsText(node.kids, 1), WhiteSpace) \o <<LF>>
  ELSE KidsText(node.kids, 1)

\* .replace(/\n{2,}/g, "\n")
CollapseLF(s) ==
  Pick(s, {i \in DOMAIN s : ~(i >= 2 /\ s[i] = LF /\ s[i - 1] = LF)}, 1)

NotEmpty(s) == s # <<>>

\* extractLinesFromElement(el)
extractLinesFromElement(el) ==
  LET raw == CollapseLF(ReplaceCRLF(nodeTextWithBreaks(el)))
      lines == SplitLF(raw)
  IN  SelectSeq([k \in DOMAIN lines |-> trim(lines[k])], NotEmpty)

\* the descendants of a node, in document order
RECURSIVE Descendants(_)
RECURSIVE DescendantsOfKids(_, _)
DescendantsOfKids(kids, i) ==
  IF i > Len(kids) THEN <<>>
  ELSE <<kids[i]>> \o Descendants(kids[i]) \o DescendantsOfKids(kids, i + 1)

Descendants(node) == DescendantsOfKids(node.kids, 1)

\* node.querySelectorAll(...): the descendants with one of the tags
querySelectorAll(node, tags) ==
  LET InTags(n) == n.tag \in tags
  IN  SelectSeq(Descendants(node), InTags)

\* the lines of the cells from the i-th on
RECURSIVE CellLines(_, _)
CellLines(cells, i) ==
  IF i > Len(cells) THEN <<>>
  ELSE extractLinesFromElement(cells[i]) \o CellLines(cells, i + 1)

\* the lines of the rows from the i-th on
RECURSIVE RowLines(_, _)
RowLines(rows, i) ==
  IF i > Len(rows) THEN <<>>
  ELSE CellLines(querySelectorAll(rows[i], {"td", "th"}), 1)
         \o RowLines(rows, i + 1)

\* lines.map((ln) => `> ${ln}`)
Quoted(lines) == [k \in DOMAIN lines |-> <<">", " ">> \o lines[k]]

tableToBlockquote(table) ==
  LET lines == RowLines(querySelectorAll(table, {"tr"}), 1)
  IN  IF lines = <<>> THEN <<>> ELSE JoinLF(Quoted(lines))

\* the cells the tables are made of: a paragraph, a paragraph with blanks
\* around its text, an empty cell, two lines in a paragraph, a blank
\* paragraph, a text with no paragraph, and a cell that holds a table
SampleCells ==
  { El("td", <<El("p", <<Txt(<<"a">>)>>)>>),
    El("td", <<El("p", <<Txt(<<" ", "b", " ">>)>>)>>),
    El("td", <<>>),
    El("td", <<El("p", <<Txt(<<"a">>), El("br", <<>>), Txt(<<"b">>)>>)>>),
    El("td", <<El("p", <<Txt(<<" ">>)>>)>>),
    El("th", <<Txt(<<"a">>)>>),
    El("td", <<El("table",
                  <<El("tr", <<El("td", <<El("p", <<Txt(<<"b">>)>>)>>)>>)>>)>>) }

\* the rows of 1..MaxCells cells, and the tables of 1..MaxRows rows
SampleRows ==
  UNION {{El("tr", cells) : cells \in [1..n -> SampleCells]} : n \in 1..MaxCells}

SampleTables ==
  UNION {{El("table", rows) : rows \in [1..n -> SampleRows]} : n \in 1..MaxRows}

TableInit ==
  /\ clock = InitClock
  /\ ReaderClosed
  /\ StoreUnused
  /\ read = NoRead
  /\ listener = NoListener
  /\ admin = NoAdmin
  /\ msg = Msg("", <<>>)
  /\ importInfo = NoImportInfo
  /\ busy = FALSE
  /\ other = NoCall
  /\ \E t \in SampleTables : text = [NoText EXCEPT !.table = t]

\* tableToBlockquote is applied to the table
TableToBlockquote ==
  /\ text.passes = 0
  /\ text' = [text EXCEPT !.s = tableToBlockquote(text.table), !.passes = 1]
  /\ UNCHANGED <<clock, readerVars, storeVars, read, listener, admin, msg,
                 importInfo, busy, other>>

SpecTable == TableInit /\ [][TableToBlockquote]_vars

\* a node without the tables in it
RECURSIVE WithoutTables(_)
RECURSIVE KidsWithoutTables(_, _)
KidsWithoutTables(kids, i) ==
  IF i > Len(kids) THEN <<>>
  ELSE (IF kids[i].tag = "table" THEN <<>> ELSE <<WithoutTables(kids[i])>>)
         \o KidsWithoutTables(kids, i + 1)

WithoutTables(node) == [node EXCEPT !.kids = KidsWithoutTables(node.kids, 1)]

\* the lines of the text of the cells from the i-th on, the text of a cell
\* being what it holds itself (a table in it has cells of its own), each
\* line trimmed and the empty ones left out
RECURSIVE CellTextLines(_, _)
CellTextLines(cells, i) ==
  IF i > Len(cells) THEN <<>>
  ELSE extractLinesFromElement(WithoutTables(cells[i]))
         \o CellTextLines(cells, i + 1)

\* C26: tableToBlockquote emits one line per non-empty line of cell text,
\* in row-then-cell order, each prefixed with "> ", and nothing else; a
\* table with no non-empty cell text gives the empty string
C26_OneLinePerCellLine ==
  text.passes = 1 =>
    LET want == CellTextLines(querySelectorAll(text.table, {"td", "th"}), 1)
        got == IF text.s = <<>> THEN <<>> ELSE SplitLF(text.s)
    IN  /\ Len(got) = Len(want)
        /\ \A k \in DOMAIN got :
             k <= Len(want) => got[k] = <<">", " ">> \o want[k]

====
